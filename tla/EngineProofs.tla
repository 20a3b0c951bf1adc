---------------------------- MODULE EngineProofs ----------------------------
(***************************************************************************)
(* What Evaluate returns, for every valid configuration and every scan.    *)
(*                                                                         *)
(* First that it does not fail (Inv). Then the invariant Findings: what    *)
(* has been found has a cause in a rule already evaluated (Sound), every   *)
(* violation such a rule owes has been found (Complete), as often as it is *)
(* due (Counted), and the map of a reachable rule is exact up to the       *)
(* current import (Cursor). Each property of the result follows from it    *)
(* and from facts about reachability.                                      *)
(***************************************************************************)
EXTENDS Engine, FiniteSetTheorems, WellFoundedInduction, TLAPS

-----------------------------------------------------------------------------
(* Reachability in any graph. *)

(* Reach is the least closed set that holds the seeds. *)
LEMMA ReachLeast ==
    ASSUME NEW graph, NEW from, NEW set \in SUBSET DOMAIN graph,
           from \subseteq set, ClosedUnder(graph, set)
    PROVE  Reach(graph, from) \subseteq set
  BY DEF Reach

(* It holds the seeds that are nodes ... *)
LEMMA ReachSeeds ==
    ASSUME NEW graph, NEW from, from \subseteq DOMAIN graph
    PROVE  from \subseteq Reach(graph, from)
  BY DEF Reach

(* ... and is closed, if edges lead to nodes. *)
LEMMA ReachClosed ==
    ASSUME NEW graph, NEW from, \A n \in DOMAIN graph : graph[n] \subseteq DOMAIN graph
    PROVE  ClosedUnder(graph, Reach(graph, from))
  BY DEF Reach, ClosedUnder

(* A filter that lets fewer edges through, or fewer seeds, never makes a    *)
(* package reachable: a "from" condition can only narrow a reachable rule.  *)
THEOREM ReachMonotone ==
    ASSUME NEW graph, NEW wider, NEW from, NEW more,
           DOMAIN graph = DOMAIN wider, from \subseteq more,
           \A n \in DOMAIN graph : graph[n] \subseteq wider[n]
    PROVE  Reach(graph, from) \subseteq Reach(wider, more)
<1>1. \A set : ClosedUnder(wider, set) /\ set \subseteq DOMAIN graph => ClosedUnder(graph, set)
  BY DEF ClosedUnder
<1> QED
  BY <1>1 DEF Reach

-----------------------------------------------------------------------------
(* A template that finds the texts it refers to. *)
Served(t, captures) == t.ref \in Nat /\ Len(captures) \in Nat /\ t.ref <= Len(captures)

(* All templates of a matcher do. *)
ServedBy(to, captures) ==
    /\ \A i \in 1..Len(to.path) : Served(to.path[i], captures)
    /\ \A i \in 1..Len(to.pathNot) : Served(to.pathNot[i], captures)

-----------------------------------------------------------------------------
(* Verdicts. *)

(* A loop over verdicts fails only if one of them does. *)
LEMMA LoopServed ==
    ASSUME NEW verdicts, \A i \in DOMAIN verdicts : verdicts[i] # "error"
    PROVE  FirstVerdict(verdicts) \in {"yes", "no"}
  BY DEF FirstVerdict

(* Matching a package fails only on a template that is not served.          *)
LEMMA PackageServed ==
    ASSUME NEW to, NEW value, NEW captures, ServedBy(to, captures)
    PROVE  MatchesPackage(to, value, captures) \in {"yes", "no"}
<1>1. ASSUME NEW t, Served(t, captures)
      PROVE  TemplateVerdict(t, value, captures) # "error"
  BY <1>1 DEF Served, TemplateVerdict
<1>2. AnyTemplate(to.path, value, captures) \in {"yes", "no"}
  <2> DEFINE verdicts == [i \in 1..Len(to.path) |-> TemplateVerdict(to.path[i], value, captures)]
  <2>1. \A i \in DOMAIN verdicts : verdicts[i] # "error"
    BY <1>1 DEF ServedBy
  <2> HIDE DEF verdicts
  <2>2. FirstVerdict(verdicts) \in {"yes", "no"}
    BY <2>1, LoopServed
  <2> QED
    BY <2>2 DEF AnyTemplate, verdicts
<1>3. AnyTemplate(to.pathNot, value, captures) \in {"yes", "no"}
  <2> DEFINE verdicts == [i \in 1..Len(to.pathNot) |->
                            TemplateVerdict(to.pathNot[i], value, captures)]
  <2>1. \A i \in DOMAIN verdicts : verdicts[i] # "error"
    BY <1>1 DEF ServedBy
  <2> HIDE DEF verdicts
  <2>2. FirstVerdict(verdicts) \in {"yes", "no"}
    BY <2>1, LoopServed
  <2> QED
    BY <2>2 DEF AnyTemplate, verdicts
<1> QED
  BY <1>2, <1>3 DEF MatchesPackage

(* So does matching a dependency,                                           *)
LEMMA DependencyServed ==
    ASSUME NEW to, NEW d, NEW captures, ServedBy(to, captures)
    PROVE  MatchesDependency(to, d, captures) \in {"yes", "no"}
<1>1. MatchesPackage(to, EffectivePath(d), captures) \in {"yes", "no"}
  BY PackageServed
<1> QED
  BY <1>1 DEF MatchesDependency

(* an import at module scope,                                               *)
LEMMA ModuleEdgeServed ==
    ASSUME NEW to, NEW f, NEW d, NEW captures, ServedBy(to, captures)
    PROVE  MatchesModuleEdge(files, to, f, d, captures) \in {"yes", "no"}
<1>1. MatchesDependency(to, d, captures) \in {"yes", "no"}
  BY DependencyServed
<1> QED
  BY <1>1 DEF MatchesModuleEdge

(* and an edge at folder scope.                                             *)
LEMMA FolderEdgeServed ==
    ASSUME NEW to, NEW p, NEW q, NEW captures, ServedBy(to, captures)
    PROVE  MatchesFolderEdge(files, to, p, q, captures) \in {"yes", "no"}
<1>1. MatchesPackage(to, q, captures) \in {"yes", "no"}
  BY PackageServed
<1> QED
  BY <1>1 DEF MatchesFolderEdge

-----------------------------------------------------------------------------
(* What the validator guarantees. *)

(* A rule that may use captures finds them for every value it selects:      *)
(* every pattern has the groups, so whichever matches first has them.       *)
LEMMA RuleServed ==
    ASSUME NEW r, WellFormedRule(r), NEW kind, ValidTo(r.to, r.from, kind, r.scope),
           FALSE \notin r.to.reachable,
           NEW value, MatchesPath(r.from, value)
    PROVE  ServedBy(r.to, Captures(r.from, value))
<1> DEFINE captures == Captures(r.from, value)
<1>1. ASSUME NEW t, t.ref \in Nat, ValidTemplate(t, r.from, TRUE)
      PROVE  Served(t, captures)
  <2>1. CASE Len(r.from.path) = 0
    <3>1. captures = <<>> /\ t.ref = 0
      BY <1>1, <2>1 DEF Captures, ValidTemplate
    <3> QED
      BY <3>1 DEF Served
  <2>2. CASE Len(r.from.path) > 0
    <3>1. PICK i \in FirstMatch(r.from, value) :
            i = CHOOSE j \in FirstMatch(r.from, value) : TRUE
      BY <2>2 DEF MatchesPath
    <3>2. i \in 1..Len(r.from.path) /\ value \in DOMAIN r.from.path[i].on
      BY <3>1 DEF FirstMatch
    <3>4. captures = r.from.path[i].on[value]
      BY <2>2, <3>1 DEF Captures
    <3>3. Len(captures) = r.from.path[i].groups /\ Len(captures) \in Nat
      BY <3>2, <3>4 DEF WellFormedRule
    <3> QED
      BY <1>1, <3>2, <3>3 DEF Served, ValidTemplate
  <2> QED
    BY <2>1, <2>2 DEF WellFormedRule
<1>2. \A i \in 1..Len(r.to.path) : Served(r.to.path[i], captures)
  BY <1>1 DEF WellFormedRule, ValidTo
<1>3. \A i \in 1..Len(r.to.pathNot) : Served(r.to.pathNot[i], captures)
  BY <1>1 DEF WellFormedRule, ValidTo
<1> QED
  BY <1>2, <1>3 DEF ServedBy

(* With reachable: false no template refers to a capture. *)
LEMMA UnreachableServed ==
    ASSUME NEW r, WellFormedRule(r), NEW kind, ValidTo(r.to, r.from, kind, r.scope),
           FALSE \in r.to.reachable
    PROVE  ServedBy(r.to, <<>>)
<1>1. ASSUME NEW t, t.ref \in Nat, ValidTemplate(t, r.from, FALSE)
      PROVE  Served(t, <<>>)
  BY <1>1 DEF ValidTemplate, Served
<1> QED
  BY <1>1 DEF WellFormedRule, ValidTo, ServedBy

-----------------------------------------------------------------------------
(* The specification. *)

Inv ==
    /\ WellFormed(config)
    /\ Valid(config)
    /\ phase # "error"
    /\ rule \in Nat \ {0}

(* Evaluate starts with a valid configuration.                              *)
LEMMA InvInit == Init => Inv
  BY QuestionsAssumption DEF Init, Inv

(* The current forbidden rule is one the validator has accepted. *)
LEMMA CurrentRule ==
    ASSUME Inv, AtForbidden
    PROVE  /\ WellFormedRule(Rule)
           /\ ValidTo(Rule.to, Rule.from, "forbidden", Rule.scope)
<1>1. rule \in 1..Len(config.forbidden)
  BY DEF Inv, AtForbidden
<1> QED
  BY <1>1 DEF Inv, Valid, ValidRule, WellFormed, Rule

(* Reporting does not fail when no verdict is an error. *)
LEMMA ReportServed ==
    ASSUME Inv, NEW verdict, NEW violation, Report(verdict, violation),
           \A s \in DOMAIN verdict : verdict[s] # "error"
    PROVE  Inv'
  BY DEF Report, Inv

(* No action fails: one case for each that calls a matcher.                 *)
LEMMA InvStep == Inv /\ [Next]_vars => Inv'
<1> SUFFICES ASSUME Inv, [Next]_vars PROVE Inv'
  OBVIOUS
<1>1. CASE EvaluateFolder
  <2> DEFINE packages == {f.pkg : f \in FilesOf(files)}
             sites == {s \in packages \X Known(files) :
                        MatchesFolder(files, Rule.from, s[1])
                            /\ s[2] \in Dependencies(files, s[1])}
             verdict == [s \in sites |->
                            MatchesFolderEdge(files, Rule.to, s[1], s[2],
                                              Captures(Rule.from, s[1]))]
             violation == [s \in sites |-> FolderViolation(Rule, s[1], s[2])]
  <2>1. AtForbidden /\ FolderRule /\ Report(verdict, violation)
    BY <1>1 DEF EvaluateFolder
  <2>2. WellFormedRule(Rule) /\ ValidTo(Rule.to, Rule.from, "forbidden", Rule.scope)
    BY <2>1, CurrentRule
  <2>3. Rule.to.reachable = {}
    BY <2>1, <2>2 DEF FolderRule, ValidTo
  <2>4. ASSUME NEW s \in sites PROVE verdict[s] \in {"yes", "no"}
    <3>1. MatchesPath(Rule.from, s[1])
      BY DEF MatchesFolder
    <3>2. ServedBy(Rule.to, Captures(Rule.from, s[1]))
      BY <2>2, <2>3, <3>1, RuleServed
    <3> QED
      BY <3>2, FolderEdgeServed
  <2>5. DOMAIN verdict = sites
    OBVIOUS
  <2> HIDE DEF sites, verdict, violation
  <2> QED
    BY <2>1, <2>4, <2>5, ReportServed
<1>2. CASE ReachableImport
  <2>1. AtForbidden /\ ReachableRule /\ Selected
    BY <1>2 DEF ReachableImport, AtReachable
  <2>2. WellFormedRule(Rule) /\ ValidTo(Rule.to, Rule.from, "forbidden", Rule.scope)
    BY <2>1, CurrentRule
  <2>3. FALSE \notin Rule.to.reachable
    BY <2>1 DEF ReachableRule
  <2>4. MatchesPath(Rule.from, CurrentFile.path)
    BY <2>1 DEF Selected, MatchesFile
  <2>5. ServedBy(Rule.to, Captures(Rule.from, CurrentFile.path))
    BY <2>2, <2>3, <2>4, RuleServed
  <2>6. \A q : MatchesPackage(Rule.to, q, Captures(Rule.from, CurrentFile.path)) # "error"
    BY <2>5, PackageServed
  <2>7. UNCHANGED <<config, phase, rule>>
    BY <1>2, <2>6 DEF ReachableImport
  <2> QED
    BY <2>7 DEF Inv
<1>3. CASE ReachableFile \/ ReachableEnd
  BY <1>3 DEF ReachableFile, ReachableEnd, Inv
<1>4. CASE EvaluateUnreachable
  <2> DEFINE seeds == {f.pkg : f \in {g \in FilesOf(files) : MatchesFile(files, Rule.from, g)}}
             match(k) == MatchesPackage(Rule.to, files[k].pkg, <<>>)
             verdict == [k \in FileSites |->
                            IF match(k) = "yes" /\ files[k].pkg \in Closed(seeds)
                            THEN "no" ELSE match(k)]
             violation == [k \in FileSites |-> SourceViolation(Rule, "unreachable", files[k])]
  <2>1. AtForbidden /\ UnreachableRule /\ Report(verdict, violation)
    BY <1>4 DEF EvaluateUnreachable
  <2>2. WellFormedRule(Rule) /\ ValidTo(Rule.to, Rule.from, "forbidden", Rule.scope)
    BY <2>1, CurrentRule
  <2>3. ServedBy(Rule.to, <<>>)
    BY <2>1, <2>2, UnreachableServed DEF UnreachableRule
  <2>4. \A k \in FileSites : verdict[k] # "error"
    BY <2>3, PackageServed
  <2>5. DOMAIN verdict = FileSites
    OBVIOUS
  <2> HIDE DEF verdict, violation
  <2> QED
    BY <2>1, <2>4, <2>5, ReportServed
<1>5. CASE EvaluateSource
  <2> DEFINE verdict == [k \in FileSites |->
                            IF MatchesFile(files, Rule.from, files[k]) THEN "yes" ELSE "no"]
             violation == [k \in FileSites |-> SourceViolation(Rule, "forbidden", files[k])]
  <2>1. Report(verdict, violation) /\ \A k \in DOMAIN verdict : verdict[k] # "error"
    BY <1>5 DEF EvaluateSource
  <2> HIDE DEF verdict, violation
  <2> QED
    BY <2>1, ReportServed
<1>6. CASE EvaluateEdges
  <2> DEFINE sites == {s \in ImportSites : MatchesFile(files, Rule.from, files[s[1]])}
             verdict == [s \in sites |->
                            MatchesModuleEdge(files, Rule.to, files[s[1]], ImportAt(s),
                                              Captures(Rule.from, files[s[1]].path))]
             violation == [s \in sites |->
                            EdgeViolation(Rule.name, Rule.severity, "forbidden",
                                          files[s[1]], ImportAt(s))]
  <2>1. AtForbidden /\ ModuleRule /\ Report(verdict, violation)
    BY <1>6 DEF EvaluateEdges
  <2>2. WellFormedRule(Rule) /\ ValidTo(Rule.to, Rule.from, "forbidden", Rule.scope)
    BY <2>1, CurrentRule
  <2>3. ASSUME NEW s \in sites PROVE verdict[s] \in {"yes", "no"}
    <3>1. MatchesPath(Rule.from, files[s[1]].path)
      BY DEF MatchesFile
    <3>2. ServedBy(Rule.to, Captures(Rule.from, files[s[1]].path))
      BY <2>1, <2>2, <3>1, RuleServed DEF ModuleRule
    <3> QED
      BY <3>2, ModuleEdgeServed
  <2>4. DOMAIN verdict = sites
    OBVIOUS
  <2> HIDE DEF sites, verdict, violation
  <2> QED
    BY <2>1, <2>3, <2>4, ReportServed
<1>7. CASE SkipIgnored \/ EndForbidden \/ EndAllowed \/ EndRequired
  BY <1>7 DEF SkipIgnored, EndForbidden, EndAllowed, EndRequired, Enter, Inv
<1>8. CASE EvaluateAllowed
  <2> DEFINE allowed == CHOOSE list \in config.allowed : TRUE
             verdict == [s \in ImportSites |->
                            Unless(AllowedVerdict(allowed, files[s[1]], ImportAt(s)))]
             violation == [s \in ImportSites |->
                            EdgeViolation(Reserved, config.allowedSeverity, "not-in-allowed",
                                          files[s[1]], ImportAt(s))]
  <2>1. FailClosed /\ Report(verdict, violation)
    BY <1>8 DEF EvaluateAllowed
  <2>2. allowed \in config.allowed
    BY <2>1 DEF FailClosed
  <2>3. ASSUME NEW i \in 1..Len(allowed)
        PROVE  /\ WellFormedRule(allowed[i])
               /\ ValidTo(allowed[i].to, allowed[i].from, "allowed", allowed[i].scope)
    BY <2>2 DEF Inv, Valid, ValidRule, WellFormed
  <2> HIDE DEF allowed
  <2>4. ASSUME NEW f, NEW d PROVE AllowedVerdict(allowed, f, d) \in {"yes", "no"}
    <3> DEFINE verdicts == [i \in 1..Len(allowed) |->
                            IF ~MatchesFile(files, allowed[i].from, f) THEN "no"
                            ELSE MatchesDependency(allowed[i].to, d,
                                                   Captures(allowed[i].from, f.path))]
    <3>1. ASSUME NEW i \in 1..Len(allowed), MatchesFile(files, allowed[i].from, f)
          PROVE  MatchesDependency(allowed[i].to, d, Captures(allowed[i].from, f.path))
                    \in {"yes", "no"}
      <4>1. MatchesPath(allowed[i].from, f.path)
        BY <3>1 DEF MatchesFile
      <4>2. allowed[i].to.reachable = {}
        BY <2>3 DEF ValidTo
      <4>3. ServedBy(allowed[i].to, Captures(allowed[i].from, f.path))
        BY <2>3, <4>1, <4>2, RuleServed
      <4> QED
        BY <4>3, DependencyServed
    <3>2. \A i \in DOMAIN verdicts : verdicts[i] # "error"
      BY <3>1
    <3> HIDE DEF verdicts
    <3>3. FirstVerdict(verdicts) \in {"yes", "no"}
      BY <3>2, LoopServed
    <3> QED
      BY <3>3 DEF AllowedVerdict, verdicts
  <2>5. \A s \in DOMAIN verdict : verdict[s] # "error"
    BY <2>4 DEF Unless
  <2> HIDE DEF verdict, violation
  <2> QED
    BY <2>1, <2>5, ReportServed
<1>9. CASE EvaluateRequired
  <2> DEFINE r == config.required[rule]
             satisfied(f) ==
                FirstVerdict([i \in 1..Len(f.imports) |->
                    MatchesDependency(r.to, f.imports[i], Captures(r.from, f.path))])
             verdict == [k \in FileSites |->
                            IF MatchesFile(files, r.from, files[k])
                            THEN Unless(satisfied(files[k])) ELSE "no"]
             violation == [k \in FileSites |-> SourceViolation(r, "required", files[k])]
  <2>1. rule \in 1..Len(config.required) /\ Report(verdict, violation)
    BY <1>9 DEF EvaluateRequired, Inv
  <2>2. WellFormedRule(r) /\ ValidTo(r.to, r.from, "required", r.scope)
    BY <2>1 DEF Inv, Valid, ValidRule, WellFormed
  <2> HIDE DEF r
  <2>3. r.to.reachable = {}
    BY <2>2 DEF ValidTo
  <2>4. ASSUME NEW f, MatchesFile(files, r.from, f) PROVE satisfied(f) \in {"yes", "no"}
    <3> DEFINE verdicts == [i \in 1..Len(f.imports) |->
                            MatchesDependency(r.to, f.imports[i], Captures(r.from, f.path))]
    <3>1. MatchesPath(r.from, f.path)
      BY <2>4 DEF MatchesFile
    <3>2. ServedBy(r.to, Captures(r.from, f.path))
      BY <2>2, <2>3, <3>1, RuleServed
    <3>3. \A i \in DOMAIN verdicts : verdicts[i] # "error"
      BY <3>2, DependencyServed
    <3> HIDE DEF verdicts
    <3>4. FirstVerdict(verdicts) \in {"yes", "no"}
      BY <3>3, LoopServed
    <3> QED
      BY <3>4 DEF verdicts
  <2> HIDE DEF satisfied
  <2>5. \A k \in DOMAIN verdict : verdict[k] # "error"
    BY <2>4 DEF Unless
  <2> HIDE DEF verdict, violation
  <2> QED
    BY <2>1, <2>5, ReportServed
<1>10. CASE Emit \/ Return \/ Returned \/ UNCHANGED vars
  BY <1>10 DEF Emit, Return, Returned, vars, Inv
<1> QED
  BY <1>1, <1>2, <1>3, <1>4, <1>5, <1>6, <1>7, <1>8, <1>9, <1>10 DEF Next

(* Evaluate does not fail on a configuration the validator accepts: every   *)
(* template finds the captures it refers to.                                *)
THEOREM ErrorFree == Spec => []NoError
<1>1. Inv => NoError
  BY DEF Inv, NoError
<1> QED
  BY <1>1, InvInit, InvStep, PTL DEF Spec

-----------------------------------------------------------------------------
(* What a rule is due to report. *)

IsFolder(r) == r.scope = "folder"
IsReachable(r) == ~IsFolder(r) /\ r.to.reachable = {TRUE}
IsUnreachable(r) == ~IsFolder(r) /\ r.to.reachable = {FALSE}
IsModule(r) == ~IsFolder(r) /\ r.to.reachable = {}

FolderHit(r, p, q) ==
    /\ p \in {f.pkg : f \in FilesOf(files)} /\ q \in Known(files)
    /\ MatchesFolder(files, r.from, p) /\ q \in Dependencies(files, p)
    /\ MatchesFolderEdge(files, r.to, p, q, Captures(r.from, p)) = "yes"

(* An import from which the walk reaches q. *)
Leads(r, d, q) ==
    /\ d.type = "local" /\ d.resolved # ""
    /\ q \in Reach(Edges(files, r.to.fileNot), {d.resolved} \cap Known(files))

Wanted(r, f, q) == MatchesPackage(r.to, q, Captures(r.from, f.path)) = "yes"

(* The walks from the first n imports of f find q. *)
Finds(r, f, n, q) ==
    /\ MatchesFile(files, r.from, f)
    /\ Wanted(r, f, q)
    /\ \E i \in 1..n : Leads(r, f.imports[i], q)

(* The line of the first of them. *)
First(r, f, n, q, line) ==
    /\ \E i \in 1..n : Leads(r, f.imports[i], q) /\ line = f.imports[i].line
    /\ \A i \in 1..n : Leads(r, f.imports[i], q) => line <= f.imports[i].line

WalkHit(r, f, q) == Finds(r, f, Len(f.imports), q)

Seeds(r) == {f.pkg : f \in {g \in FilesOf(files) : MatchesFile(files, r.from, g)}}

UnreachedHit(r, k) ==
    /\ MatchesPackage(r.to, files[k].pkg, <<>>) = "yes"
    /\ files[k].pkg \notin Reach(Edges(files, r.to.fileNot), Seeds(r) \cap Known(files))

SourceHit(r, k) == SourceOnly(r) /\ MatchesFile(files, r.from, files[k])

EdgeHit(r, s) ==
    /\ ~SourceOnly(r)
    /\ MatchesFile(files, r.from, files[s[1]])
    /\ MatchesModuleEdge(files, r.to, files[s[1]], ImportAt(s),
                         Captures(r.from, files[s[1]].path)) = "yes"

EdgeOf(r, s) == EdgeViolation(r.name, r.severity, "forbidden", files[s[1]], ImportAt(s))

(* An import that no allowed rule covers. *)
Slips(s) == \E allowed \in config.allowed : AllowedVerdict(allowed, files[s[1]], ImportAt(s)) = "no"

SlipOf(s) ==
    EdgeViolation(Reserved, config.allowedSeverity, "not-in-allowed", files[s[1]], ImportAt(s))

-----------------------------------------------------------------------------
(* What has been reported. *)

All == DOMAIN found \cup Reported

Copies(v) ==
    (IF v \in DOMAIN found THEN found[v] ELSE 0)
        + Cardinality({i \in 1..Len(violations) : violations[i] = v})

(* The forbidden rules behind the index. *)
Passed == IF phase = "forbidden" THEN 1..(rule - 1) ELSE 1..Len(config.forbidden)

(* The files a reachable rule has walked from. *)
Walked(j) ==
    IF j \in Passed THEN FileSites
    ELSE IF phase = "forbidden" /\ j = rule THEN 1..(file - 1) ELSE {}

(* v is a violation of a rule r other than a reachable one. *)
Makes(r, v) ==
    \/ /\ IsFolder(r)
       /\ \E p, q \in Known(files) : FolderHit(r, p, q) /\ v = FolderViolation(r, p, q)
    \/ /\ IsUnreachable(r)
       /\ \E k \in FileSites : UnreachedHit(r, k) /\ v = SourceViolation(r, "unreachable", files[k])
    \/ /\ IsModule(r)
       /\ \/ \E k \in FileSites : SourceHit(r, k) /\ v = SourceViolation(r, "forbidden", files[k])
          \/ \E s \in ImportSites : EdgeHit(r, s) /\ v = EdgeOf(r, s)

(* vs has the violations r owes. *)
Owes(r, vs) ==
    /\ IsFolder(r) => \A p, q \in Known(files) : FolderHit(r, p, q) => FolderViolation(r, p, q) \in vs
    /\ IsUnreachable(r) => \A k \in FileSites :
        UnreachedHit(r, k) => SourceViolation(r, "unreachable", files[k]) \in vs
    /\ IsModule(r) => \A s \in ImportSites : EdgeHit(r, s) => EdgeOf(r, s) \in vs

(* v is a violation of the reachable rule r in file k. *)
Reaches(r, k, v) ==
    \E q \in Known(files) :
        /\ WalkHit(r, files[k], q)
        /\ First(r, files[k], Len(files[k].imports), q, v.line)
        /\ v = ReachableViolation(r, files[k], q, v.line)

(* vs has the violations r owes to file k. *)
OwesReached(r, k, vs) ==
    \A q \in Known(files) :
        WalkHit(r, files[k], q) => \E v \in vs : v = ReachableViolation(r, files[k], q, v.line)

(* v is a violation the forbidden rule at j has reported. *)
FromForbidden(j, v) ==
    LET r == config.forbidden[j]
    IN  /\ Active(r)
        /\ \/ IsReachable(r) /\ \E k \in Walked(j) : Reaches(r, k, v)
           \/ j \in Passed /\ Makes(r, v)

AllowedPassed == FailClosed /\ (phase = "allowed" => rule > 1) /\ phase # "forbidden"

FromAllowed(v) == AllowedPassed /\ \E s \in ImportSites : Slips(s) /\ v = SlipOf(s)

FromRequired(v) ==
    /\ phase \in {"required", "sort", "done"}
    /\ \E j \in 1..Len(config.required) : \E k \in FileSites :
        v = SourceViolation(config.required[j], "required", files[k])

Cause(v) ==
    \/ \E j \in 1..Len(config.forbidden) : FromForbidden(j, v)
    \/ FromAllowed(v)
    \/ FromRequired(v)

(* Nothing is reported without cause. *)
Sound == \A v \in All : Cause(v)

(* What the forbidden rule at j is due to report so far is reported. *)
Covered(j) ==
    LET r == config.forbidden[j]
    IN  Active(r) =>
          /\ IsReachable(r) => \A k \in Walked(j) : OwesReached(r, k, All)
          /\ j \in Passed => Owes(r, All)

Complete ==
    /\ \A j \in 1..Len(config.forbidden) : Covered(j)
    /\ AllowedPassed => \A s \in ImportSites : Slips(s) => SlipOf(s) \in All

(* A walk reports once, fail-closed checking once for each import. *)
CountedOnce(v) ==
    /\ v.kind = "reachable" => Copies(v) = 1
    /\ v.kind = "not-in-allowed" =>
        Copies(v) = Cardinality({s \in ImportSites : Slips(s) /\ SlipOf(s) = v})

Counted == \A v \in All : CountedOnce(v)

(* The map of a reachable rule is exact up to the current import. *)
Cursor ==
    /\ rule \in Nat \ {0} /\ imp \in Nat \ {0} /\ file \in Nat \ {0}
    /\ phase = "forbidden" => rule <= Len(config.forbidden) + 1
    /\ phase = "required" => rule <= Len(config.required) + 1
    /\ phase = "allowed" => rule = 1 \/ (FailClosed /\ rule = 2)
    /\ AtReachable /\ file <= Len(files) =>
        /\ Selected => imp <= Len(CurrentFile.imports) + 1
        /\ ~Selected => imp = 1
        /\ \A q \in DOMAIN lowest : q \in Known(files) /\ First(Rule, CurrentFile, imp - 1, q, lowest[q])
        /\ \A q \in Known(files) : q \in DOMAIN lowest <=> Finds(Rule, CurrentFile, imp - 1, q)
    /\ file <= Len(files) + 1
    /\ ~(AtReachable /\ file <= Len(files)) => imp = 1 /\ DOMAIN lowest = {}
    /\ ~AtReachable => file = 1

Phases == {"forbidden", "allowed", "required", "sort", "done"}

Violation ==
    [rule : Strings, severity : Strings, kind : Strings, path : Strings, line : Nat,
     package : {f.name : f \in FilesOf(files)} \cup {""}, target : Strings, type : Strings,
     importPath : Strings]

Shape ==
    /\ Listed(config) /\ WellScanned(files)
    /\ phase \in Phases
    /\ found \in [DOMAIN found -> Nat \ {0}]
    /\ DOMAIN found \subseteq Violation
    /\ violations \in Seq(Violation)
    /\ phase \notin {"sort", "done"} => violations = <<>>
    /\ phase = "done" => found = EmptyBag

Findings == Inv /\ Shape /\ Cursor /\ Sound /\ Complete /\ Counted
-----------------------------------------------------------------------------
(* Scans and bags. *)

Import == [path : Strings \ {""}, resolved : Strings, type : Strings, line : Nat]

(* A list has a length and its indices as domain.                           *)
LEMMA ListLength ==
    ASSUME NEW s, IsList(s)
    PROVE  Len(s) \in Nat /\ DOMAIN s = 1..Len(s)
<1> DEFINE values == {s[i] : i \in DOMAIN s}
<1>1. s \in Seq(values)
  BY DEF IsList
<1> HIDE DEF values
<1> QED
  BY <1>1

(* What the assumption on scans says of files, imports and their places.    *)
LEMMA Scanned ==
    ASSUME WellScanned(files)
    PROVE  /\ Len(files) \in Nat
           /\ \A k \in FileSites : files[k] \in FilesOf(files)
           /\ \A f \in FilesOf(files) : \E k \in FileSites : f = files[k]
           /\ \A f \in FilesOf(files) :
                /\ f.path \in Strings /\ f.pkg \in Strings /\ f.line \in Nat
                /\ f.imports \in Seq(Import)
                /\ Len(f.imports) \in Nat
                /\ \A i \in 1..Len(f.imports) : f.imports[i] \in Import
           /\ \A s \in ImportSites :
                /\ s[1] \in FileSites /\ s[2] \in 1..Len(files[s[1]].imports)
                /\ s = <<s[1], s[2]>>
                /\ ImportAt(s) \in Import
<1>1. Len(files) \in Nat
  BY ListLength DEF WellScanned
<1>2. \A k \in FileSites : files[k] \in FilesOf(files)
  BY DEF FileSites, FilesOf
<1>3. \A f \in FilesOf(files) : \E k \in FileSites : f = files[k]
  BY DEF FileSites, FilesOf
<1>4. ASSUME NEW f \in FilesOf(files)
      PROVE  /\ f.path \in Strings /\ f.pkg \in Strings /\ f.line \in Nat
             /\ f.imports \in Seq(Import)
  BY DEF WellScanned, Import
<1>5. ASSUME NEW f \in FilesOf(files)
      PROVE  Len(f.imports) \in Nat /\ \A i \in 1..Len(f.imports) : f.imports[i] \in Import
  <2> DEFINE imports == f.imports
  <2>1. imports \in Seq(Import)
    BY <1>4
  <2> HIDE DEF imports
  <2>2. Len(imports) \in Nat /\ \A i \in 1..Len(imports) : imports[i] \in Import
    BY <2>1
  <2> QED
    BY <2>2 DEF imports
<1>6. ASSUME NEW s \in ImportSites
      PROVE  /\ s[1] \in FileSites /\ s[2] \in 1..Len(files[s[1]].imports)
             /\ s = <<s[1], s[2]>>
  BY DEF ImportSites
<1>7. \A s \in ImportSites : ImportAt(s) \in Import
  BY <1>2, <1>5, <1>6 DEF ImportAt
<1> QED
  BY <1>1, <1>2, <1>3, <1>4, <1>5, <1>6, <1>7

(* The image of a finite set. *)
LEMMA FiniteImage ==
    ASSUME NEW f, IsFiniteSet(DOMAIN f)
    PROVE  IsFiniteSet({f[x] : x \in DOMAIN f})
<1> DEFINE g == [x \in DOMAIN f |-> f[x]]
<1>1. g \in Surjection(DOMAIN f, {f[x] : x \in DOMAIN f})
  BY DEF Surjection
<1> QED
  BY <1>1, FS_Surjection

(* There are finitely many places and packages.                             *)
LEMMA FiniteSites ==
    ASSUME WellScanned(files)
    PROVE  /\ IsFiniteSet(FileSites) /\ IsFiniteSet(ImportSites)
           /\ IsFiniteSet(Known(files))
<1>1. IsFiniteSet(FileSites)
  <2>1. 1 \in Int /\ Len(files) \in Int
    BY Scanned
  <2> QED
    BY <2>1, FS_Interval DEF FileSites
<1>2. IsFiniteSet(ImportSites)
  <2> DEFINE of == [k \in FileSites |-> {<<k, i>> : i \in 1..Len(files[k].imports)}]
  <2>1. ASSUME NEW k \in FileSites PROVE IsFiniteSet(of[k])
    <3> DEFINE g == [i \in 1..Len(files[k].imports) |-> <<k, i>>]
    <3>1. Len(files[k].imports) \in Int /\ 1 \in Int
      BY Scanned
    <3>2. IsFiniteSet(1..Len(files[k].imports))
      BY <3>1, FS_Interval
    <3>3. g \in Surjection(1..Len(files[k].imports), of[k])
      BY DEF Surjection
    <3> QED
      BY <3>2, <3>3, FS_Surjection
  <2>2. IsFiniteSet({of[k] : k \in FileSites})
    <3>1. DOMAIN of = FileSites
      OBVIOUS
    <3> HIDE DEF of
    <3> QED
      BY <1>1, <3>1, FiniteImage
  <2>3. ImportSites = UNION {of[k] : k \in FileSites}
    BY DEF ImportSites
  <2> HIDE DEF of
  <2> QED
    BY <2>1, <2>2, <2>3, FS_UNION
<1>3. IsFiniteSet({f.pkg : f \in FilesOf(files)})
  <2> DEFINE g == [k \in FileSites |-> files[k].pkg]
  <2>1. g \in Surjection(FileSites, {f.pkg : f \in FilesOf(files)})
    BY Scanned DEF Surjection
  <2> QED
    BY <1>1, <2>1, FS_Surjection
<1>4. IsFiniteSet(Imported(files))
  <2> DEFINE g == [s \in ImportSites |-> ImportAt(s).resolved]
  <2>1. g \in Surjection(ImportSites, {ImportAt(s).resolved : s \in ImportSites})
    BY DEF Surjection
  <2>2. IsFiniteSet({ImportAt(s).resolved : s \in ImportSites})
    BY <1>2, <2>1, FS_Surjection
  <2>3. Imported(files) \subseteq {ImportAt(s).resolved : s \in ImportSites}
    <3> SUFFICES ASSUME NEW f \in FilesOf(files), NEW q \in LocalTargets(f)
                 PROVE  q \in {ImportAt(s).resolved : s \in ImportSites}
      BY DEF Imported
    <3>1. PICK i \in 1..Len(f.imports) : q = f.imports[i].resolved
      BY DEF LocalTargets
    <3>2. PICK k \in FileSites : f = files[k]
      BY Scanned
    <3>3. <<k, i>> \in ImportSites /\ ImportAt(<<k, i>>) = f.imports[i]
      BY <3>1, <3>2 DEF ImportSites, ImportAt
    <3> QED
      BY <3>1, <3>3
  <2> QED
    BY <2>2, <2>3, FS_Subset
<1> QED
  BY <1>1, <1>2, <1>3, <1>4, FS_Union DEF Known

(* Adding the violations of some sites. *)
LEMMA AddBag ==
    ASSUME Shape, NEW violation, IsFiniteSet(DOMAIN violation),
           found' = found (+) BagOf(violation), UNCHANGED <<files, violations>>,
           \A s \in DOMAIN violation : violation[s] \in Violation,
           phase \notin {"sort", "done"}
    PROVE  /\ found' \in [DOMAIN found' -> Nat \ {0}]
           /\ (DOMAIN found \subseteq Violation)'
           /\ All' = All \cup {violation[s] : s \in DOMAIN violation}
           /\ \A v \in All : v \notin {violation[s] : s \in DOMAIN violation} =>
                Copies(v)' = Copies(v)
           /\ \A v : v \notin All => Copies(v)' = Cardinality({s \in DOMAIN violation : violation[s] = v})
<1> DEFINE new == {violation[s] : s \in DOMAIN violation}
           count(v) == Cardinality({s \in DOMAIN violation : violation[s] = v})
           at(v) == {i \in 1..Len(violations) : violations[i] = v}
<1>1. \A v \in new : count(v) \in Nat \ {0}
  <2> SUFFICES ASSUME NEW v \in new PROVE count(v) \in Nat \ {0}
    OBVIOUS
  <2> DEFINE those == {s \in DOMAIN violation : violation[s] = v}
  <2>1. those \in SUBSET DOMAIN violation /\ those # {}
    OBVIOUS
  <2> HIDE DEF those
  <2>2. IsFiniteSet(those)
    BY <2>1, FS_Subset
  <2>3. Cardinality(those) \in Nat /\ Cardinality(those) # 0
    BY <2>1, <2>2, FS_CardinalityType, FS_EmptySet
  <2> QED
    BY <2>3 DEF those
<1>2. BagOf(violation) = [v \in new |-> count(v)]
  BY DEF BagOf
<1>3. violations = <<>> /\ violations' = <<>> /\ \A v : at(v) = {}
  BY DEF Shape
<1>4. Cardinality({}) = 0
  BY FS_EmptySet
<1> HIDE DEF count, at, new
<1>5. found' = [v \in DOMAIN found \cup new |->
                    (IF v \in DOMAIN found THEN found[v] ELSE 0)
                        + (IF v \in new THEN count(v) ELSE 0)]
  BY <1>2 DEF (+)
<1>6. found' \in [DOMAIN found' -> Nat \ {0}]
  BY <1>1, <1>5 DEF Shape
<1>7. DOMAIN found' = DOMAIN found \cup new
  BY <1>5
<1>8. (DOMAIN found \subseteq Violation)'
  <2>1. Violation' = Violation
    BY DEF Violation
  <2> QED
    BY <1>7, <2>1 DEF new, Shape
<1>9. All = DOMAIN found /\ All' = DOMAIN found \cup new
  BY <1>3, <1>7 DEF All, Reported
<1>f. found \in [DOMAIN found -> Nat \ {0}]
  BY DEF Shape
<1>10. ASSUME NEW v PROVE Copies(v) = IF v \in DOMAIN found THEN found[v] ELSE 0
  <2>1. {i \in 1..Len(violations) : violations[i] = v} = {}
    BY <1>3 DEF at
  <2>2. Copies(v) = (IF v \in DOMAIN found THEN found[v] ELSE 0)
                        + Cardinality({i \in 1..Len(violations) : violations[i] = v})
    BY DEF Copies
  <2> HIDE DEF Copies
  <2>3. Copies(v) = (IF v \in DOMAIN found THEN found[v] ELSE 0) + 0
    BY <1>4, <2>1, <2>2
  <2>4. v \in DOMAIN found => found[v] \in Nat
    BY <1>f
  <2> QED
    BY <2>3, <2>4
<1>11. ASSUME NEW v PROVE Copies(v)' = IF v \in DOMAIN found' THEN found'[v] ELSE 0
  <2>1. {i \in 1..Len(violations') : violations'[i] = v} = {}
    BY <1>3
  <2>2. Copies(v)' = (IF v \in DOMAIN found' THEN found'[v] ELSE 0)
                        + Cardinality({i \in 1..Len(violations') : violations'[i] = v})
    BY DEF Copies
  <2> HIDE DEF Copies
  <2>3. Copies(v)' = (IF v \in DOMAIN found' THEN found'[v] ELSE 0) + 0
    BY <1>4, <2>1, <2>2
  <2>4. v \in DOMAIN found' => found'[v] \in Nat
    BY <1>6
  <2> QED
    BY <2>3, <2>4
<1>12. \A v \in All : v \notin new => Copies(v)' = Copies(v)
  <2> SUFFICES ASSUME NEW v \in All, v \notin new PROVE Copies(v)' = Copies(v)
    OBVIOUS
  <2>1. v \in DOMAIN found /\ v \in DOMAIN found' /\ found[v] \in Nat
    BY <1>7, <1>9, <1>f
  <2>2. found'[v] = found[v] + 0
    BY <1>5, <2>1
  <2> QED
    BY <1>10, <1>11, <2>1, <2>2
<1>13. \A v : v \notin All => Copies(v)' = count(v)
  <2> SUFFICES ASSUME NEW v, v \notin All PROVE Copies(v)' = count(v)
    OBVIOUS
  <2>1. CASE v \in new
    <3>1. v \in DOMAIN found' /\ v \notin DOMAIN found
      BY <1>7, <1>9, <2>1
    <3>2. found'[v] = 0 + count(v)
      BY <1>5, <1>7, <2>1, <3>1
    <3>3. count(v) \in Nat
      BY <1>1, <2>1
    <3> QED
      BY <1>11, <3>1, <3>2, <3>3
  <2>2. CASE v \notin new
    <3>1. {s \in DOMAIN violation : violation[s] = v} = {}
      BY <2>2 DEF new
    <3>2. Copies(v)' = 0
      BY <1>7, <1>9, <1>11, <2>2
    <3> QED
      BY <1>4, <3>1, <3>2 DEF count
  <2> QED
    BY <2>1, <2>2
<1> QED
  BY <1>6, <1>8, <1>9, <1>12, <1>13 DEF new, count

-----------------------------------------------------------------------------
(* Rules and their names. *)

(* A name belongs to one rule of one list.                                  *)
LEMMA Names ==
    ASSUME Inv, Shape
    PROVE  /\ Len(config.forbidden) \in Nat /\ Len(config.required) \in Nat
           /\ \A j, k \in 1..Len(config.forbidden) :
                config.forbidden[j].name = config.forbidden[k].name => j = k
           /\ \A j, k \in 1..Len(config.required) :
                config.required[j].name = config.required[k].name => j = k
           /\ \A j \in 1..Len(config.forbidden), k \in 1..Len(config.required) :
                config.forbidden[j].name # config.required[k].name
<1> DEFINE F == config.forbidden
           R == config.required
           values == {F[i] : i \in DOMAIN F} \cup {R[i] : i \in DOMAIN R}
<1>1. F \in Seq(values) /\ R \in Seq(values)
  <2> DEFINE vf == {F[i] : i \in DOMAIN F}
             vr == {R[i] : i \in DOMAIN R}
  <2>1. F \in Seq(vf) /\ R \in Seq(vr)
    BY DEF Shape, Listed, IsList
  <2>2. vf \subseteq values /\ vr \subseteq values
    OBVIOUS
  <2> HIDE DEF vf, vr, values, F, R
  <2> QED
    BY <2>1, <2>2
<1>2. \A i, j \in 1..Len(F \o R) : (F \o R)[i].name = (F \o R)[j].name => i = j
  BY DEF Inv, Valid, DistinctNames
<1> HIDE DEF F, R, values
<1>3. Len(F) \in Nat /\ Len(R) \in Nat /\ Len(F \o R) = Len(F) + Len(R)
  BY <1>1
<1>4. \A i \in 1..Len(F) : (F \o R)[i] = F[i] /\ i \in 1..Len(F \o R)
  BY <1>1, <1>3
<1>5. \A i \in 1..Len(R) :
        /\ (F \o R)[Len(F) + i] = R[i]
        /\ Len(F) + i \in 1..Len(F \o R)
        /\ Len(F) + i \notin 1..Len(F)
  <2> SUFFICES ASSUME NEW i \in 1..Len(R)
               PROVE  /\ (F \o R)[Len(F) + i] = R[i]
                      /\ Len(F) + i \in 1..Len(F \o R)
                      /\ Len(F) + i \notin 1..Len(F)
    OBVIOUS
  <2>1. Len(F) + i \in 1..Len(F \o R) /\ Len(F) + i \notin 1..Len(F)
    BY <1>3
  <2>2. (F \o R)[Len(F) + i] = R[Len(F) + i - Len(F)]
    BY <1>1, <1>3, <2>1
  <2> QED
    BY <1>3, <2>1, <2>2
<1>6. \A j, k \in 1..Len(F) : F[j].name = F[k].name => j = k
  BY <1>2, <1>4
<1>7. \A j, k \in 1..Len(R) : R[j].name = R[k].name => j = k
  <2> SUFFICES ASSUME NEW j \in 1..Len(R), NEW k \in 1..Len(R), R[j].name = R[k].name PROVE j = k
    OBVIOUS
  <2>1. Len(F) + j = Len(F) + k
    BY <1>2, <1>5
  <2> QED
    BY <1>3, <2>1
<1>8. \A j \in 1..Len(F), k \in 1..Len(R) : F[j].name # R[k].name
  BY <1>2, <1>4, <1>5
<1> QED
  BY <1>3, <1>6, <1>7, <1>8 DEF F, R

(* Names, severities and scopes of the rules of a valid configuration.      *)
LEMMA RuleTypes ==
    ASSUME Inv, Shape
    PROVE  /\ \A j \in 1..Len(config.forbidden) :
                LET r == config.forbidden[j]
                IN  /\ r.name \in Strings /\ r.name # Reserved /\ r.severity \in Strings
                    /\ r.scope \in {"module", "folder"}
                    /\ r.scope = "folder" => r.to.reachable = {}
           /\ \A j \in 1..Len(config.required) :
                LET r == config.required[j]
                IN  r.name \in Strings /\ r.name # Reserved /\ r.severity \in Strings
           /\ config.allowedSeverity \in Strings
<1>1. Severity \subseteq Strings
  BY RankAssumption
<1>2. ASSUME NEW j \in 1..Len(config.forbidden)
      PROVE  LET r == config.forbidden[j]
             IN  /\ r.name \in Strings /\ r.name # Reserved /\ r.severity \in Strings
                 /\ r.scope \in {"module", "folder"}
                 /\ r.scope = "folder" => r.to.reachable = {}
  <2>1. ValidRule(config.forbidden[j], "forbidden")
    BY DEF Inv, Valid
  <2>2. config.forbidden[j].name \in Strings
    BY DEF Shape, Listed
  <2> QED
    BY <1>1, <2>1, <2>2 DEF ValidRule, ValidTo
<1>3. ASSUME NEW j \in 1..Len(config.required)
      PROVE  LET r == config.required[j]
             IN  r.name \in Strings /\ r.name # Reserved /\ r.severity \in Strings
  <2>1. ValidRule(config.required[j], "required")
    BY DEF Inv, Valid
  <2>2. config.required[j].name \in Strings
    BY DEF Shape, Listed
  <2> QED
    BY <1>1, <2>1, <2>2 DEF ValidRule
<1>4. config.allowedSeverity \in Strings
  BY <1>1 DEF Inv, Valid
<1> QED
  BY <1>2, <1>3, <1>4

(* The violations have the fields of violations. *)
LEMMA SourceTyped ==
    ASSUME WellScanned(files), NEW r, r.name \in Strings, r.severity \in Strings,
           NEW kind \in Strings, NEW k \in FileSites
    PROVE  SourceViolation(r, kind, files[k]) \in Violation
<1>1. /\ files[k] \in FilesOf(files) /\ files[k].path \in Strings /\ files[k].line \in Nat
      /\ "" \in Strings
  BY Scanned, RankAssumption
<1> QED
  BY <1>1 DEF SourceViolation, Violation

(* The violation of an import has the fields of one.                        *)
LEMMA EdgeTyped ==
    ASSUME WellScanned(files), NEW name \in Strings, NEW severity \in Strings,
           NEW kind \in Strings, NEW s \in ImportSites
    PROVE  EdgeViolation(name, severity, kind, files[s[1]], ImportAt(s)) \in Violation
<1>1. files[s[1]] \in FilesOf(files) /\ files[s[1]].path \in Strings /\ ImportAt(s) \in Import
  BY Scanned
<1>2. EffectivePath(ImportAt(s)) \in Strings
  BY <1>1 DEF Import, EffectivePath
<1> QED
  BY <1>1, <1>2 DEF EdgeViolation, Violation, Import

(* Packages are strings.                                                    *)
LEMMA KnownStrings ==
    ASSUME WellScanned(files)
    PROVE  Known(files) \subseteq Strings
<1> SUFFICES ASSUME NEW q \in Known(files) PROVE q \in Strings
  OBVIOUS
<1>1. CASE q \in {f.pkg : f \in FilesOf(files)}
  BY <1>1, Scanned
<1>2. CASE q \in Imported(files)
  <2>1. PICK f \in FilesOf(files) : q \in LocalTargets(f)
    BY <1>2 DEF Imported
  <2>2. PICK i \in 1..Len(f.imports) : q = f.imports[i].resolved
    BY <2>1 DEF LocalTargets
  <2>3. f.imports[i] \in Import
    BY Scanned
  <2> QED
    BY <2>2, <2>3 DEF Import
<1> QED
  BY <1>1, <1>2 DEF Known

(* So has the violation of a folder or a walk.                              *)
LEMMA PackageTyped ==
    ASSUME WellScanned(files), NEW r, r.name \in Strings, r.severity \in Strings,
           NEW q \in Known(files)
    PROVE  /\ \A p \in Known(files) : FolderViolation(r, p, q) \in Violation
           /\ \A k \in FileSites, line \in Nat : ReachableViolation(r, files[k], q, line) \in Violation
<1>1. Known(files) \subseteq Strings /\ {"", "local", "forbidden", "reachable"} \subseteq Strings
  BY KnownStrings, RankAssumption
<1>2. \A k \in FileSites : files[k] \in FilesOf(files) /\ files[k].path \in Strings
  BY Scanned
<1>3. \A p \in Known(files) : FolderViolation(r, p, q) \in Violation
  BY <1>1 DEF FolderViolation, Violation
<1>4. \A k \in FileSites, line \in Nat : ReachableViolation(r, files[k], q, line) \in Violation
  BY <1>1, <1>2 DEF ReachableViolation, Violation
<1> QED
  BY <1>3, <1>4

-----------------------------------------------------------------------------
(* What a step leaves alone. *)

(* What depends on the inputs only does not change.                         *)
LEMMA Static ==
    ASSUME UNCHANGED <<config, files>>
    PROVE  /\ FileSites' = FileSites /\ ImportSites' = ImportSites /\ Violation' = Violation
           /\ \A r, p, q : FolderHit(r, p, q)' <=> FolderHit(r, p, q)
           /\ \A r, f, n, q : Finds(r, f, n, q)' <=> Finds(r, f, n, q)
           /\ \A r, f, q : WalkHit(r, f, q)' <=> WalkHit(r, f, q)
           /\ \A r, f, n, q, line : First(r, f, n, q, line)' <=> First(r, f, n, q, line)
           /\ \A r, k : UnreachedHit(r, k)' <=> UnreachedHit(r, k)
           /\ \A r, k : SourceHit(r, k)' <=> SourceHit(r, k)
           /\ \A r, s : EdgeHit(r, s)' <=> EdgeHit(r, s)
           /\ \A r, s : EdgeOf(r, s)' = EdgeOf(r, s)
           /\ \A s : Slips(s)' <=> Slips(s)
           /\ \A s : SlipOf(s)' = SlipOf(s)
<1>1. FileSites' = FileSites /\ ImportSites' = ImportSites /\ Violation' = Violation
  BY DEF FileSites, ImportSites, Violation
<1>2. \A r, d, q : Leads(r, d, q)' <=> Leads(r, d, q)
  BY DEF Leads
<1>3. \A r, f, n, q : Finds(r, f, n, q)' <=> Finds(r, f, n, q)
  BY <1>2 DEF Finds, Wanted
<1>4. \A r, f, q : WalkHit(r, f, q)' <=> WalkHit(r, f, q)
  BY <1>3 DEF WalkHit
<1>5. \A r, f, n, q, line : First(r, f, n, q, line)' <=> First(r, f, n, q, line)
  BY <1>2 DEF First
<1>6. \A r, p, q : FolderHit(r, p, q)' <=> FolderHit(r, p, q)
  BY DEF FolderHit
<1>7. \A r, k : UnreachedHit(r, k)' <=> UnreachedHit(r, k)
  BY DEF UnreachedHit, Seeds
<1>8. \A r, k : SourceHit(r, k)' <=> SourceHit(r, k)
  BY DEF SourceHit
<1>9. \A s : ImportAt(s)' = ImportAt(s)
  BY DEF ImportAt
<1>10. \A r, s : EdgeHit(r, s)' <=> EdgeHit(r, s)
  BY <1>9 DEF EdgeHit
<1>11. \A r, s : EdgeOf(r, s)' = EdgeOf(r, s)
  BY <1>9 DEF EdgeOf
<1>12. \A s : Slips(s)' <=> Slips(s)
  BY <1>9 DEF Slips, AllowedVerdict
<1>13. \A s : SlipOf(s)' = SlipOf(s)
  BY <1>9 DEF SlipOf
<1> QED
  BY <1>1, <1>3, <1>4, <1>5, <1>6, <1>7, <1>8, <1>10, <1>11, <1>12, <1>13

(* Nor does what the rules say of them.                                     *)
LEMMA RulesStatic ==
    ASSUME UNCHANGED <<config, files>>
    PROVE  /\ \A r, v : Makes(r, v)' <=> Makes(r, v)
           /\ \A r, vs : Owes(r, vs)' <=> Owes(r, vs)
           /\ \A r, k, v : Reaches(r, k, v)' <=> Reaches(r, k, v)
           /\ \A r, k, vs : OwesReached(r, k, vs)' <=> OwesReached(r, k, vs)
<1>1. \A r, v : Makes(r, v)' <=> Makes(r, v)
  <2> SUFFICES ASSUME NEW r, NEW v PROVE Makes(r, v)' <=> Makes(r, v)
    OBVIOUS
  <2>1. \A p, q \in Known(files) : FolderHit(r, p, q)' <=> FolderHit(r, p, q)
    BY Static
  <2>2. /\ \A k \in FileSites : UnreachedHit(r, k)' <=> UnreachedHit(r, k)
        /\ \A k \in FileSites : SourceHit(r, k)' <=> SourceHit(r, k)
        /\ FileSites' = FileSites /\ ImportSites' = ImportSites
    BY Static
  <2>3. \A s \in ImportSites : (EdgeHit(r, s)' <=> EdgeHit(r, s)) /\ EdgeOf(r, s)' = EdgeOf(r, s)
    BY Static
  <2> QED
    BY <2>1, <2>2, <2>3 DEF Makes
<1>2. \A r, vs : Owes(r, vs)' <=> Owes(r, vs)
  <2> SUFFICES ASSUME NEW r, NEW vs PROVE Owes(r, vs)' <=> Owes(r, vs)
    OBVIOUS
  <2>1. \A p, q \in Known(files) : FolderHit(r, p, q)' <=> FolderHit(r, p, q)
    BY Static
  <2>2. /\ \A k \in FileSites : UnreachedHit(r, k)' <=> UnreachedHit(r, k)
        /\ FileSites' = FileSites /\ ImportSites' = ImportSites
    BY Static
  <2>3. \A s \in ImportSites : (EdgeHit(r, s)' <=> EdgeHit(r, s)) /\ EdgeOf(r, s)' = EdgeOf(r, s)
    BY Static
  <2> QED
    BY <2>1, <2>2, <2>3 DEF Owes
<1>3. \A r, k, v : Reaches(r, k, v)' <=> Reaches(r, k, v)
  BY Static DEF Reaches
<1>4. \A r, k, vs : OwesReached(r, k, vs)' <=> OwesReached(r, k, vs)
  BY Static DEF OwesReached
<1> QED
  BY <1>1, <1>2, <1>3, <1>4

(* A cause remains one. *)
LEMMA Grow ==
    ASSUME UNCHANGED <<config, files>>, NEW j, NEW v, FromForbidden(j, v),
           Walked(j) \subseteq Walked(j)', j \in Passed => j \in Passed'
    PROVE  FromForbidden(j, v)'
  BY RulesStatic DEF FromForbidden

-----------------------------------------------------------------------------
(* Steps. *)

(* The rules and files passed stay passed. *)
Onward ==
    /\ UNCHANGED <<config, files>>
    /\ \A j \in 1..Len(config.forbidden) :
        Walked(j) \subseteq Walked(j)' /\ (j \in Passed => j \in Passed')
    /\ AllowedPassed => AllowedPassed'
    /\ phase \in {"required", "sort", "done"} => phase' \in {"required", "sort", "done"}

(* A step that goes forward keeps the cause of a violation,                 *)
LEMMA CauseKept ==
    ASSUME Onward, NEW v, Cause(v)
    PROVE  Cause(v)'
<1>0. UNCHANGED <<config, files>>
  BY DEF Onward
<1>1. ASSUME NEW j \in 1..Len(config.forbidden), FromForbidden(j, v)
      PROVE  FromForbidden(j, v)'
  BY <1>1, Grow DEF Onward
<1>2. FromAllowed(v) => FromAllowed(v)'
  <2>1. ImportSites' = ImportSites /\ \A s : (Slips(s)' <=> Slips(s)) /\ SlipOf(s)' = SlipOf(s)
    BY <1>0, Static
  <2> QED
    BY <2>1 DEF FromAllowed, Onward
<1>3. FromRequired(v) => FromRequired(v)'
  <2>1. FileSites' = FileSites
    BY <1>0, Static
  <2> QED
    BY <1>0, <2>1 DEF FromRequired, Onward
<1> QED
  BY <1>0, <1>1, <1>2, <1>3 DEF Cause

(* keeps covered what is covered,                                           *)
LEMMA CoveredKept ==
    ASSUME UNCHANGED <<config, files>>, NEW j \in 1..Len(config.forbidden), Covered(j),
           Walked(j)' = Walked(j), j \in Passed' => j \in Passed, All \subseteq All'
    PROVE  Covered(j)'
<1> DEFINE r == config.forbidden[j]
<1>1. \A k : OwesReached(r, k, All) => OwesReached(r, k, All)'
  <2>1. \A k : OwesReached(r, k, All) => OwesReached(r, k, All')
    BY DEF OwesReached
  <2>2. \A k : OwesReached(r, k, All') => OwesReached(r, k, All)'
    BY RulesStatic
  <2> QED
    BY <2>1, <2>2
<1>2. Owes(r, All) => Owes(r, All)'
  <2>1. Owes(r, All) => Owes(r, All')
    BY DEF Owes
  <2>2. Owes(r, All') => Owes(r, All)'
    BY RulesStatic
  <2> QED
    BY <2>1, <2>2
<1> QED
  BY <1>1, <1>2 DEF Covered

(* and keeps the counts of what it does not report.                         *)
LEMMA CountedKept ==
    ASSUME UNCHANGED <<config, files>>, NEW v, CountedOnce(v), Copies(v)' = Copies(v)
    PROVE  CountedOnce(v)'
<1>1. ImportSites' = ImportSites /\ \A s : (Slips(s)' <=> Slips(s)) /\ SlipOf(s)' = SlipOf(s)
  BY Static
<1>2. {s \in ImportSites : Slips(s) /\ SlipOf(s) = v}' = {s \in ImportSites : Slips(s) /\ SlipOf(s) = v}
  BY <1>1
<1> QED
  BY <1>2 DEF CountedOnce

(* A step that reports nothing. *)
LEMMA StillStep ==
    ASSUME Findings, Onward, UNCHANGED <<found, violations>>,
           \A j \in 1..Len(config.forbidden) : Covered(j)',
           AllowedPassed' => AllowedPassed
    PROVE  Sound' /\ Complete' /\ Counted'
<1>0. UNCHANGED <<config, files>>
  BY DEF Onward
<1>1. All' = All /\ \A v : Copies(v)' = Copies(v)
  BY DEF All, Reported, Copies
<1>2. Sound'
  BY <1>1, CauseKept DEF Sound, Findings
<1>3. Complete'
  <2>1. ImportSites' = ImportSites /\ \A s : (Slips(s)' <=> Slips(s)) /\ SlipOf(s)' = SlipOf(s)
    BY <1>0, Static
  <2>2. (AllowedPassed => \A s \in ImportSites : Slips(s) => SlipOf(s) \in All)'
    BY <1>1, <2>1 DEF Findings, Complete
  <2> QED
    BY <1>0, <2>2 DEF Complete
<1>4. Counted'
  BY <1>0, <1>1, CountedKept DEF Counted, Findings
<1> QED
  BY <1>2, <1>3, <1>4

(* A step that reports new violations, each with a cause. *)
LEMMA NewStep ==
    ASSUME Findings, Onward, NEW new, All' = All \cup new,
           \A v \in All : v \notin new => Copies(v)' = Copies(v),
           \A v \in new : Cause(v)' /\ CountedOnce(v)',
           \A j \in 1..Len(config.forbidden) : Covered(j)',
           AllowedPassed' => AllowedPassed \/ \A s \in ImportSites : Slips(s) => SlipOf(s) \in new
    PROVE  Sound' /\ Complete' /\ Counted'
<1>0. UNCHANGED <<config, files>>
  BY DEF Onward
<1>2. Sound'
  BY CauseKept DEF Sound, Findings
<1>3. Complete'
  <2>1. ImportSites' = ImportSites /\ \A s : (Slips(s)' <=> Slips(s)) /\ SlipOf(s)' = SlipOf(s)
    BY <1>0, Static
  <2>2. (AllowedPassed => \A s \in ImportSites : Slips(s) => SlipOf(s) \in All)'
    BY <2>1 DEF Findings, Complete
  <2> QED
    BY <1>0, <2>2 DEF Complete
<1>4. Counted'
  <2> SUFFICES ASSUME NEW v \in All' PROVE CountedOnce(v)'
    BY DEF Counted
  <2>1. CASE v \in new
    BY <2>1
  <2>2. CASE v \notin new
    BY <1>0, <2>2, CountedKept DEF Counted, Findings
  <2> QED
    BY <2>1, <2>2
<1> QED
  BY <1>2, <1>3, <1>4

(* A cursor at the beginning of the files. *)
LEMMA FreshCursor ==
    ASSUME Shape, UNCHANGED <<config, files>>, rule' \in Nat \ {0}, file' = 1, imp' = 1,
           DOMAIN lowest' = {},
           phase' = "forbidden" => rule' <= Len(config.forbidden) + 1,
           phase' = "required" => rule' <= Len(config.required) + 1,
           phase' = "allowed" => rule' = 1 \/ (FailClosed /\ rule' = 2)
    PROVE  Cursor'
<1>1. Len(files) \in Nat /\ \A k \in FileSites : Len(files[k].imports) \in Nat
  BY Scanned DEF Shape
<1>2. file' <= Len(files') => Len(CurrentFile.imports)' \in Nat
  BY <1>1 DEF CurrentFile, FileSites
<1>3. \A q : ~Finds(Rule, CurrentFile, imp - 1, q)'
  BY DEF Finds
<1>4. (phase = "allowed" => rule = 1 \/ (FailClosed /\ rule = 2))'
  BY DEF FailClosed
<1> QED
  BY <1>1, <1>2, <1>3, <1>4 DEF Cursor

(* A report that does not fail. *)
LEMMA ReportBag ==
    ASSUME Findings, Inv', NEW verdict, NEW violation, Report(verdict, violation),
           IsFiniteSet(DOMAIN verdict), phase \notin {"sort", "done"},
           \A s \in DOMAIN verdict : violation[s] \in Violation
    PROVE  LET hits == {s \in DOMAIN verdict : verdict[s] = "yes"}
               new == {violation[s] : s \in hits}
           IN  /\ rule' = rule + 1
               /\ UNCHANGED <<config, files, phase, file, imp, lowest, violations>>
               /\ Shape'
               /\ All' = All \cup new
               /\ \A v \in All : v \notin new => Copies(v)' = Copies(v)
               /\ \A v : v \notin All => Copies(v)' = Cardinality({s \in hits : violation[s] = v})
<1> DEFINE hits == {s \in DOMAIN verdict : verdict[s] = "yes"}
           reports == [s \in hits |-> violation[s]]
<1>1. /\ found' = found (+) BagOf(reports)
      /\ rule' = rule + 1
      /\ UNCHANGED <<config, files, phase, file, imp, lowest, violations>>
  BY DEF Report, Fail, Inv
<1>2. Shape
  BY DEF Findings
<1>3. DOMAIN reports = hits /\ \A s \in hits : reports[s] = violation[s] /\ reports[s] \in Violation
  OBVIOUS
<1>4. IsFiniteSet(hits)
  BY FS_Subset
<1> HIDE DEF reports, hits
<1>5. /\ found' \in [DOMAIN found' -> Nat \ {0}]
      /\ (DOMAIN found \subseteq Violation)'
      /\ All' = All \cup {reports[s] : s \in DOMAIN reports}
      /\ \A v \in All : v \notin {reports[s] : s \in DOMAIN reports} => Copies(v)' = Copies(v)
      /\ \A v : v \notin All => Copies(v)' = Cardinality({s \in DOMAIN reports : reports[s] = v})
  BY <1>1, <1>2, <1>3, <1>4, AddBag
<1>6. {reports[s] : s \in DOMAIN reports} = {violation[s] : s \in hits}
  BY <1>3
<1>7. \A v : {s \in DOMAIN reports : reports[s] = v} = {s \in hits : violation[s] = v}
  BY <1>3
<1>8. Violation' = Violation
  BY <1>1 DEF Violation
<1>9. Shape'
  BY <1>1, <1>2, <1>5, <1>8 DEF Shape, Listed
<1> QED
  BY <1>1, <1>5, <1>6, <1>7, <1>9 DEF hits

(* Moving on to the next forbidden rule. *)
LEMMA NextForbidden ==
    ASSUME Findings, phase = "forbidden", rule <= Len(config.forbidden), rule' = rule + 1,
           UNCHANGED <<config, files, phase>>, file' = 1,
           Walked(rule) \in {{}, FileSites}
    PROVE  /\ Onward
           /\ \A j : j \in Passed' <=> j \in Passed \/ j = rule
           /\ rule \notin Passed
           /\ \A j : j # rule => Walked(j)' = Walked(j)
           /\ \A j : j = rule => Walked(j)' = FileSites
           /\ ~AllowedPassed /\ ~AllowedPassed'
<1>1. /\ rule \in Nat \ {0} /\ FileSites' = FileSites /\ Len(config.forbidden) \in Nat
      /\ UNCHANGED <<config, files>>
  BY Static, Names DEF Findings, Inv
<1>2. Passed = 1..(rule - 1) /\ Passed' = 1..rule
  BY <1>1 DEF Passed
<1>3. \A j : j \in Passed' <=> j \in Passed \/ j = rule
  BY <1>1, <1>2
<1>4. rule \notin Passed
  BY <1>1, <1>2
<1>5. \A j : j # rule => Walked(j)' = Walked(j)
  BY <1>1, <1>3 DEF Walked
<1>6. \A j : j = rule => Walked(j)' = FileSites
  BY <1>1, <1>3 DEF Walked
<1>7. ~AllowedPassed /\ ~AllowedPassed'
  BY DEF AllowedPassed
<1>8. Onward
  <2>1. \A j : Walked(j) \subseteq Walked(j)' /\ (j \in Passed => j \in Passed')
    <3> SUFFICES ASSUME NEW j PROVE Walked(j) \subseteq Walked(j)' /\ (j \in Passed => j \in Passed')
      OBVIOUS
    <3>1. CASE j = rule
      BY <1>4, <1>6, <3>1
    <3>2. CASE j # rule
      BY <1>3, <1>5, <3>2
    <3> QED
      BY <3>1, <3>2
  <2> QED
    BY <1>1, <1>7, <2>1 DEF Onward
<1> QED
  BY <1>3, <1>4, <1>5, <1>6, <1>7, <1>8

(* A forbidden rule that is evaluated in one step. *)
LEMMA ForbiddenStep ==
    ASSUME Findings, Inv', AtForbidden, ~ReachableRule,
           NEW verdict, NEW violation, Report(verdict, violation), IsFiniteSet(DOMAIN verdict),
           \A s \in DOMAIN verdict : violation[s] \in Violation,
           \A s \in DOMAIN verdict : verdict[s] = "yes" =>
                Makes(Rule, violation[s]) /\ violation[s].kind \notin {"reachable", "not-in-allowed"},
           Owes(Rule, {violation[s] : s \in {t \in DOMAIN verdict : verdict[t] = "yes"}})
    PROVE  Findings'
<1> DEFINE hits == {s \in DOMAIN verdict : verdict[s] = "yes"}
           new == {violation[s] : s \in hits}
<1>1. phase = "forbidden" /\ rule <= Len(config.forbidden) /\ Active(Rule) /\ rule \in 1..Len(config.forbidden)
  BY Names DEF AtForbidden, Findings, Inv
<1>2. /\ rule' = rule + 1
      /\ UNCHANGED <<config, files, phase, file, imp, lowest, violations>>
      /\ Shape'
      /\ All' = All \cup new
      /\ \A v \in All : v \notin new => Copies(v)' = Copies(v)
  BY <1>1, ReportBag
<1>3. file = 1 /\ imp = 1 /\ DOMAIN lowest = {}
  BY DEF Findings, Cursor, AtReachable
<1>4. /\ Onward
      /\ \A j : j \in Passed' <=> j \in Passed \/ j = rule
      /\ \A j : j # rule => Walked(j)' = Walked(j)
      /\ \A j : j = rule => Walked(j)' = FileSites
      /\ ~AllowedPassed /\ ~AllowedPassed'
  <2>1. Walked(rule) \in {{}, FileSites}
    BY <1>1, <1>3 DEF Walked
  <2> QED
    BY <1>1, <1>2, <1>3, <2>1, NextForbidden
<1>5. PICK i, r : i = rule /\ r = Rule
  OBVIOUS
<1>6. \A v \in new : Cause(v)' /\ CountedOnce(v)'
  <2> SUFFICES ASSUME NEW s \in hits PROVE Cause(violation[s])' /\ CountedOnce(violation[s])'
    OBVIOUS
  <2>1. Makes(r, violation[s])'
    BY <1>2, <1>5, RulesStatic
  <2>2. FromForbidden(i, violation[s])'
    <3>1. i \in Passed' /\ config.forbidden'[i] = r
      BY <1>2, <1>4, <1>5 DEF Rule
    <3> QED
      BY <1>1, <1>5, <2>1, <3>1 DEF FromForbidden
  <2>3. Cause(violation[s])'
    BY <1>1, <1>2, <1>5, <2>2 DEF Cause
  <2>4. CountedOnce(violation[s])'
    BY DEF CountedOnce
  <2> QED
    BY <2>3, <2>4
<1>7. ASSUME NEW j \in 1..Len(config.forbidden) PROVE Covered(j)'
  <2>1. CASE j = rule
    <3>1. Owes(r, new) => Owes(r, All')
      BY <1>2 DEF Owes
    <3>2. Owes(r, All)'
      BY <1>2, <1>5, <3>1, RulesStatic
    <3>3. config.forbidden'[j] = r /\ ~IsReachable(r)
      BY <1>2, <1>5, <2>1 DEF Rule, ReachableRule, FolderRule, IsReachable, IsFolder
    <3> QED
      BY <3>2, <3>3 DEF Covered
  <2>2. CASE j # rule
    BY <1>2, <1>4, <2>2, CoveredKept DEF Findings, Complete
  <2> QED
    BY <2>1, <2>2
<1>8. Sound' /\ Complete' /\ Counted'
  <2> HIDE DEF new
  <2> QED
    BY <1>2, <1>4, <1>6, <1>7, NewStep
<1>9. Cursor'
  <2>1. rule' \in Nat \ {0} /\ rule' <= Len(config.forbidden) + 1 /\ Len(config.forbidden) \in Nat
    BY <1>1, <1>2, Names DEF Findings
  <2> QED
    BY <1>1, <1>2, <1>3, <2>1, FreshCursor DEF Findings
<1> QED
  BY <1>2, <1>8, <1>9 DEF Findings

(* EvaluateFolder reports the folder edges that match.                      *)
LEMMA FolderStep ==
    ASSUME Findings, Inv', EvaluateFolder
    PROVE  Findings'
<1> DEFINE packages == {f.pkg : f \in FilesOf(files)}
           sites == {s \in packages \X Known(files) :
                        MatchesFolder(files, Rule.from, s[1])
                            /\ s[2] \in Dependencies(files, s[1])}
           verdict == [s \in sites |->
                            MatchesFolderEdge(files, Rule.to, s[1], s[2], Captures(Rule.from, s[1]))]
           violation == [s \in sites |-> FolderViolation(Rule, s[1], s[2])]
           new == {violation[s] : s \in {t \in DOMAIN verdict : verdict[t] = "yes"}}
<1>1. AtForbidden /\ FolderRule /\ ~ReachableRule /\ Report(verdict, violation)
  BY DEF EvaluateFolder, ReachableRule
<1>2. WellScanned(files) /\ Rule.name \in Strings /\ Rule.severity \in Strings
  <2>1. rule \in 1..Len(config.forbidden)
    BY <1>1, Names DEF AtForbidden, Findings, Inv
  <2> QED
    BY <2>1, RuleTypes DEF Rule, Findings, Shape
<1>3. packages \subseteq Known(files)
  BY DEF Known
<1>4. IsFiniteSet(sites)
  <2>1. IsFiniteSet(Known(files) \X Known(files))
    BY <1>2, FiniteSites, FS_Product
  <2>2. sites \in SUBSET (Known(files) \X Known(files))
    BY <1>3
  <2> HIDE DEF sites
  <2> QED
    BY <2>1, <2>2, FS_Subset
<1>5. DOMAIN verdict = sites
  OBVIOUS
<1>6. \A s \in sites : violation[s] \in Violation
  BY <1>2, <1>3, PackageTyped
<1>7. ASSUME NEW s \in sites, verdict[s] = "yes"
      PROVE  Makes(Rule, violation[s]) /\ violation[s].kind \notin {"reachable", "not-in-allowed"}
  <2>1. FolderHit(Rule, s[1], s[2])
    BY <1>7 DEF FolderHit
  <2>2. s[1] \in Known(files) /\ s[2] \in Known(files)
    BY <1>3
  <2>3. violation[s] = FolderViolation(Rule, s[1], s[2]) /\ IsFolder(Rule)
    BY <1>1 DEF IsFolder, FolderRule
  <2>4. violation[s].kind = "forbidden"
    BY <2>3 DEF FolderViolation
  <2> HIDE DEF violation
  <2> QED
    BY <2>1, <2>2, <2>3, <2>4 DEF Makes
<1>8. Owes(Rule, new)
  <2> SUFFICES ASSUME NEW p, NEW q, FolderHit(Rule, p, q)
               PROVE  FolderViolation(Rule, p, q) \in new
    BY <1>1 DEF Owes, IsFolder, IsUnreachable, IsModule, FolderRule
  <2>1. <<p, q>> \in sites /\ verdict[<<p, q>>] = "yes"
    BY DEF FolderHit
  <2>2. violation[<<p, q>>] = FolderViolation(Rule, p, q)
    BY <2>1
  <2> QED
    BY <1>5, <2>1, <2>2
<1> HIDE DEF sites, verdict, violation
<1> QED
  BY <1>1, <1>4, <1>5, <1>6, <1>7, <1>8, ForbiddenStep

(* EvaluateUnreachable reports the files of unreached packages.             *)
LEMMA UnreachableStep ==
    ASSUME Findings, Inv', EvaluateUnreachable
    PROVE  Findings'
<1> DEFINE match(k) == MatchesPackage(Rule.to, files[k].pkg, <<>>)
           verdict == [k \in FileSites |->
                          IF match(k) = "yes" /\ files[k].pkg \in Closed(Seeds(Rule))
                          THEN "no" ELSE match(k)]
           violation == [k \in FileSites |-> SourceViolation(Rule, "unreachable", files[k])]
           new == {violation[s] : s \in {t \in DOMAIN verdict : verdict[t] = "yes"}}
<1>1. AtForbidden /\ UnreachableRule /\ ~ReachableRule /\ Report(verdict, violation)
  BY DEF EvaluateUnreachable, ReachableRule, UnreachableRule, Seeds
<1>2. WellScanned(files) /\ Rule.name \in Strings /\ Rule.severity \in Strings /\ "unreachable" \in Strings
  <2>1. rule \in 1..Len(config.forbidden)
    BY <1>1, Names DEF AtForbidden, Findings, Inv
  <2> QED
    BY <2>1, RuleTypes, RankAssumption DEF Rule, Findings, Shape
<1>3. DOMAIN verdict = FileSites /\ IsFiniteSet(DOMAIN verdict)
  BY <1>2, FiniteSites
<1>4. \A k \in FileSites : violation[k] \in Violation
  BY <1>2, SourceTyped
<1>5. \A k \in FileSites : verdict[k] = "yes" <=> UnreachedHit(Rule, k)
  BY DEF UnreachedHit, Closed
<1>6. ASSUME NEW k \in FileSites, verdict[k] = "yes"
      PROVE  Makes(Rule, violation[k]) /\ violation[k].kind \notin {"reachable", "not-in-allowed"}
  <2>1. violation[k] = SourceViolation(Rule, "unreachable", files[k]) /\ IsUnreachable(Rule)
    BY <1>1 DEF IsFolder, IsUnreachable, UnreachableRule, FolderRule
  <2>2. violation[k].kind = "unreachable"
    BY <2>1 DEF SourceViolation
  <2> HIDE DEF violation, verdict
  <2> QED
    BY <1>5, <1>6, <2>1, <2>2 DEF Makes
<1>7. Owes(Rule, new)
  <2>1. ~IsFolder(Rule) /\ ~IsModule(Rule)
    BY <1>1 DEF IsFolder, IsModule, UnreachableRule, FolderRule
  <2>2. \A k \in FileSites : violation[k] = SourceViolation(Rule, "unreachable", files[k])
    OBVIOUS
  <2> HIDE DEF verdict, violation
  <2> QED
    BY <1>3, <1>5, <2>1, <2>2 DEF Owes
<1> HIDE DEF verdict, violation
<1> QED
  BY <1>1, <1>3, <1>4, <1>6, <1>7, ForbiddenStep

(* EvaluateSource reports the files selected.                               *)
LEMMA SourceStep ==
    ASSUME Findings, Inv', EvaluateSource
    PROVE  Findings'
<1> DEFINE verdict == [k \in FileSites |->
                          IF MatchesFile(files, Rule.from, files[k]) THEN "yes" ELSE "no"]
           violation == [k \in FileSites |-> SourceViolation(Rule, "forbidden", files[k])]
           new == {violation[s] : s \in {t \in DOMAIN verdict : verdict[t] = "yes"}}
<1>1. AtForbidden /\ ModuleRule /\ ~ReachableRule /\ SourceOnly(Rule) /\ Report(verdict, violation)
  BY DEF EvaluateSource, ReachableRule, ModuleRule
<1>2. WellScanned(files) /\ Rule.name \in Strings /\ Rule.severity \in Strings /\ "forbidden" \in Strings
  <2>1. rule \in 1..Len(config.forbidden)
    BY <1>1, Names DEF AtForbidden, Findings, Inv
  <2> QED
    BY <2>1, RuleTypes, RankAssumption DEF Rule, Findings, Shape
<1>3. DOMAIN verdict = FileSites /\ IsFiniteSet(DOMAIN verdict)
  BY <1>2, FiniteSites
<1>4. \A k \in FileSites : violation[k] \in Violation
  BY <1>2, SourceTyped
<1>5. \A k \in FileSites : verdict[k] = "yes" => SourceHit(Rule, k)
  BY <1>1 DEF SourceHit
<1>6. ASSUME NEW k \in FileSites, verdict[k] = "yes"
      PROVE  Makes(Rule, violation[k]) /\ violation[k].kind \notin {"reachable", "not-in-allowed"}
  <2>1. violation[k] = SourceViolation(Rule, "forbidden", files[k]) /\ IsModule(Rule)
    BY <1>1 DEF IsFolder, IsModule, ModuleRule, FolderRule
  <2>2. violation[k].kind = "forbidden"
    BY <2>1 DEF SourceViolation
  <2> HIDE DEF violation, verdict
  <2> QED
    BY <1>5, <1>6, <2>1, <2>2 DEF Makes
<1>7. Owes(Rule, new)
  <2>1. ~IsFolder(Rule) /\ ~IsUnreachable(Rule)
    BY <1>1 DEF IsFolder, IsUnreachable, ModuleRule, FolderRule
  <2>2. \A s : ~EdgeHit(Rule, s)
    BY <1>1 DEF EdgeHit
  <2> QED
    BY <2>1, <2>2 DEF Owes
<1> HIDE DEF verdict, violation
<1> QED
  BY <1>1, <1>3, <1>4, <1>6, <1>7, ForbiddenStep

(* EvaluateEdges reports the imports that match.                            *)
LEMMA EdgesStep ==
    ASSUME Findings, Inv', EvaluateEdges
    PROVE  Findings'
<1> DEFINE sites == {s \in ImportSites : MatchesFile(files, Rule.from, files[s[1]])}
           verdict == [s \in sites |->
                          MatchesModuleEdge(files, Rule.to, files[s[1]], ImportAt(s),
                                            Captures(Rule.from, files[s[1]].path))]
           violation == [s \in sites |->
                          EdgeViolation(Rule.name, Rule.severity, "forbidden",
                                        files[s[1]], ImportAt(s))]
           new == {violation[s] : s \in {t \in DOMAIN verdict : verdict[t] = "yes"}}
<1>1. AtForbidden /\ ModuleRule /\ ~ReachableRule /\ ~SourceOnly(Rule) /\ Report(verdict, violation)
  BY DEF EvaluateEdges, ReachableRule, ModuleRule
<1>2. WellScanned(files) /\ Rule.name \in Strings /\ Rule.severity \in Strings /\ "forbidden" \in Strings
  <2>1. rule \in 1..Len(config.forbidden)
    BY <1>1, Names DEF AtForbidden, Findings, Inv
  <2> QED
    BY <2>1, RuleTypes, RankAssumption DEF Rule, Findings, Shape
<1>3. DOMAIN verdict = sites /\ IsFiniteSet(DOMAIN verdict)
  BY <1>2, FiniteSites, FS_Subset
<1>4. \A s \in sites : violation[s] \in Violation
  BY <1>2, EdgeTyped
<1>5. \A s \in ImportSites : EdgeHit(Rule, s) <=> s \in sites /\ verdict[s] = "yes"
  BY <1>1 DEF EdgeHit
<1>6. ASSUME NEW s \in sites, verdict[s] = "yes"
      PROVE  Makes(Rule, violation[s]) /\ violation[s].kind \notin {"reachable", "not-in-allowed"}
  <2>1. violation[s] = EdgeOf(Rule, s) /\ IsModule(Rule) /\ s \in ImportSites
    BY <1>1 DEF IsFolder, IsModule, ModuleRule, FolderRule, EdgeOf
  <2>2. violation[s].kind = "forbidden"
    BY <2>1 DEF EdgeOf, EdgeViolation
  <2>3. EdgeHit(Rule, s)
    BY <1>5, <1>6, <2>1
  <2> HIDE DEF violation, verdict
  <2> QED
    BY <2>1, <2>2, <2>3 DEF Makes
<1>7. Owes(Rule, new)
  <2>1. ~IsFolder(Rule) /\ ~IsUnreachable(Rule)
    BY <1>1 DEF IsFolder, IsUnreachable, ModuleRule, FolderRule
  <2>2. \A s \in sites : violation[s] = EdgeOf(Rule, s)
    BY DEF EdgeOf
  <2> HIDE DEF verdict, violation
  <2> QED
    BY <1>3, <1>5, <2>1, <2>2 DEF Owes
<1> HIDE DEF verdict, violation
<1> QED
  BY <1>1, <1>3, <1>4, <1>6, <1>7, ForbiddenStep

(* What a cause says of the kind. *)
LEMMA Kinds ==
    ASSUME NEW v, NEW j, FromForbidden(j, v)
    PROVE  v.kind # "not-in-allowed"
<1> DEFINE r == config.forbidden[j]
<1>1. CASE \E k \in Walked(j) : Reaches(r, k, v)
  <2>1. PICK f, q, line : v = ReachableViolation(r, f, q, line)
    BY <1>1 DEF Reaches
  <2>2. v.kind = "reachable"
    BY <2>1 DEF ReachableViolation
  <2> QED
    BY <2>2
<1>2. CASE Makes(r, v)
  <2>1. CASE \E p, q : v = FolderViolation(r, p, q)
    <3>1. PICK p, q : v = FolderViolation(r, p, q)
      BY <2>1
    <3>2. v.kind = "forbidden"
      BY <3>1 DEF FolderViolation
    <3> QED
      BY <3>2
  <2>2. CASE \E kind \in {"unreachable", "forbidden"} : \E f : v = SourceViolation(r, kind, f)
    <3>1. PICK kind \in {"unreachable", "forbidden"} : \E f : v = SourceViolation(r, kind, f)
      BY <2>2
    <3>2. PICK f : v = SourceViolation(r, kind, f)
      BY <3>1
    <3>3. v.kind = kind
      BY <3>2 DEF SourceViolation
    <3> QED
      BY <3>3
  <2>3. CASE \E s : v = EdgeOf(r, s)
    <3>1. PICK s : v = EdgeOf(r, s)
      BY <2>3
    <3>2. v.kind = "forbidden"
      BY <3>1 DEF EdgeOf, EdgeViolation
    <3> QED
      BY <3>2
  <2> QED
    BY <1>2, <2>1, <2>2, <2>3 DEF Makes
<1> QED
  BY <1>1, <1>2 DEF FromForbidden

(* Past the forbidden rules nothing more is due from them. *)
LEMMA Settled ==
    ASSUME Findings, UNCHANGED <<config, files>>, phase # "forbidden", phase' # "forbidden",
           All \subseteq All'
    PROVE  /\ \A j \in 1..Len(config.forbidden) : Covered(j)'
           /\ \A j : Walked(j)' = Walked(j) /\ (j \in Passed' <=> j \in Passed)
<1>1. FileSites' = FileSites
  BY Static
<1>2. Passed' = Passed
  BY DEF Passed
<1>3. \A j : Walked(j)' = Walked(j) /\ (j \in Passed' <=> j \in Passed)
  BY <1>1, <1>2 DEF Walked
<1>4. \A j \in 1..Len(config.forbidden) : Covered(j)'
  BY <1>3, CoveredKept DEF Findings, Complete
<1> QED
  BY <1>3, <1>4

(* EvaluateAllowed reports the imports nothing covers.                      *)
LEMMA AllowedStep ==
    ASSUME Findings, Inv', EvaluateAllowed
    PROVE  Findings'
<1> DEFINE allowed == CHOOSE list \in config.allowed : TRUE
           verdict == [s \in ImportSites |->
                          Unless(AllowedVerdict(allowed, files[s[1]], ImportAt(s)))]
           violation == [s \in ImportSites |->
                          EdgeViolation(Reserved, config.allowedSeverity, "not-in-allowed",
                                        files[s[1]], ImportAt(s))]
           hits == {s \in DOMAIN verdict : verdict[s] = "yes"}
           new == {violation[s] : s \in hits}
<1>1. phase = "allowed" /\ FailClosed /\ rule = 1 /\ Report(verdict, violation)
  BY DEF EvaluateAllowed
<1>2. WellScanned(files) /\ Reserved \in Strings /\ config.allowedSeverity \in Strings
  BY RuleTypes, RankAssumption DEF Findings, Shape
<1>3. DOMAIN verdict = ImportSites /\ IsFiniteSet(DOMAIN verdict)
  BY <1>2, FiniteSites
<1>4. \A s \in ImportSites : violation[s] = SlipOf(s) /\ violation[s] \in Violation
  BY <1>2, EdgeTyped DEF SlipOf, Reserved
<1>5. \A s \in ImportSites : verdict[s] = "yes" <=> Slips(s)
  <2>1. allowed \in config.allowed /\ \A list \in config.allowed : list = allowed
    BY <1>1 DEF FailClosed, Findings, Shape, Listed
  <2> HIDE DEF allowed
  <2>2. \A s : Slips(s) <=> AllowedVerdict(allowed, files[s[1]], ImportAt(s)) = "no"
    BY <2>1 DEF Slips
  <2> QED
    BY <2>2 DEF Unless
<1> HIDE DEF verdict, violation
<1>6. /\ rule' = rule + 1
      /\ UNCHANGED <<config, files, phase, file, imp, lowest, violations>>
      /\ Shape'
      /\ All' = All \cup new
      /\ \A v \in All : v \notin new => Copies(v)' = Copies(v)
      /\ \A v : v \notin All => Copies(v)' = Cardinality({s \in hits : violation[s] = v})
  BY <1>1, <1>3, <1>4, ReportBag
<1>7. ~AllowedPassed /\ AllowedPassed'
  BY <1>1, <1>6 DEF AllowedPassed, FailClosed
<1>8. hits = {s \in ImportSites : Slips(s)} /\ \A s \in hits : violation[s] = SlipOf(s)
  BY <1>3, <1>4, <1>5
<1>9. /\ ImportSites' = ImportSites /\ \A s : (Slips(s)' <=> Slips(s)) /\ SlipOf(s)' = SlipOf(s)
  BY <1>6, Static
<1>10. Onward /\ \A j \in 1..Len(config.forbidden) : Covered(j)'
  BY <1>1, <1>6, <1>7, Settled DEF Onward
<1>11. ASSUME NEW v \in new PROVE Cause(v)' /\ CountedOnce(v)'
  <2>1. PICK s \in hits : v = SlipOf(s)
    BY <1>8
  <2>2. v.kind = "not-in-allowed"
    BY <2>1 DEF SlipOf, EdgeViolation
  <2>3. FromAllowed(v)'
    BY <1>7, <1>8, <1>9, <2>1 DEF FromAllowed
  <2>4. v \notin All
    <3>1. ~Cause(v)
      BY <1>1, <1>7, <2>2, Kinds DEF Cause, FromAllowed, FromRequired
    <3> QED
      BY <3>1 DEF Findings, Sound
  <2>5. {t \in hits : violation[t] = v} = {t \in ImportSites : Slips(t) /\ SlipOf(t) = v}'
    BY <1>8, <1>9
  <2>6. Copies(v)' = Cardinality({t \in ImportSites : Slips(t) /\ SlipOf(t) = v})'
    BY <1>6, <2>4, <2>5
  <2> QED
    BY <2>2, <2>3, <2>6 DEF Cause, CountedOnce
<1>12. \A s \in ImportSites : Slips(s) => SlipOf(s) \in new
  BY <1>8
<1>13. Sound' /\ Complete' /\ Counted'
  <2> HIDE DEF new
  <2> QED
    BY <1>6, <1>10, <1>11, <1>12, NewStep
<1>14. Cursor'
  <2>1. file = 1 /\ imp = 1 /\ DOMAIN lowest = {}
    BY <1>1 DEF Findings, Cursor, AtReachable, AtForbidden
  <2> QED
    BY <1>1, <1>6, <2>1, FreshCursor DEF Findings
<1> QED
  BY <1>6, <1>13, <1>14 DEF Findings

(* EvaluateRequired reports files.                                          *)
LEMMA RequiredStep ==
    ASSUME Findings, Inv', EvaluateRequired
    PROVE  Findings'
<1> DEFINE r == config.required[rule]
           satisfied(f) ==
               FirstVerdict([i \in 1..Len(f.imports) |->
                   MatchesDependency(r.to, f.imports[i], Captures(r.from, f.path))])
           verdict == [k \in FileSites |->
                         IF MatchesFile(files, r.from, files[k])
                         THEN Unless(satisfied(files[k])) ELSE "no"]
           violation == [k \in FileSites |-> SourceViolation(r, "required", files[k])]
           hits == {s \in DOMAIN verdict : verdict[s] = "yes"}
           new == {violation[s] : s \in hits}
<1>1. phase = "required" /\ rule <= Len(config.required) /\ Report(verdict, violation)
  BY DEF EvaluateRequired
<1>2. WellScanned(files) /\ rule \in 1..Len(config.required)
      /\ r.name \in Strings /\ r.severity \in Strings /\ "required" \in Strings
  <2>1. rule \in 1..Len(config.required)
    BY <1>1, Names DEF Findings, Inv
  <2>2. r.name \in Strings /\ r.severity \in Strings
    BY <2>1, RuleTypes DEF Findings
  <2>3. WellScanned(files) /\ "required" \in Strings
    BY RankAssumption DEF Findings, Shape
  <2> QED
    BY <2>1, <2>2, <2>3
<1>3. DOMAIN verdict = FileSites /\ IsFiniteSet(DOMAIN verdict)
  BY <1>2, FiniteSites
<1>4. \A k \in FileSites : violation[k] = SourceViolation(r, "required", files[k]) /\ violation[k] \in Violation
  BY <1>2, SourceTyped
<1> HIDE DEF verdict, violation
<1>5. /\ rule' = rule + 1
      /\ UNCHANGED <<config, files, phase, file, imp, lowest, violations>>
      /\ Shape'
      /\ All' = All \cup new
      /\ \A v \in All : v \notin new => Copies(v)' = Copies(v)
  BY <1>1, <1>3, <1>4, ReportBag
<1>6. AllowedPassed' <=> AllowedPassed
  BY <1>1, <1>5 DEF AllowedPassed, FailClosed
<1>7. Onward /\ \A j \in 1..Len(config.forbidden) : Covered(j)'
  BY <1>1, <1>5, <1>6, Settled DEF Onward
<1>8. ASSUME NEW v \in new PROVE Cause(v)' /\ CountedOnce(v)'
  <2>1. PICK k \in FileSites : v = SourceViolation(r, "required", files[k])
    BY <1>3, <1>4
  <2>2. v.kind = "required"
    BY <2>1 DEF SourceViolation
  <2>3. FromRequired(v)'
    <3>1. FileSites' = FileSites
      BY <1>5, Static
    <3>2. \E j \in 1..Len(config.required) : v = SourceViolation(config.required[j], "required", files[k])
      BY <1>2, <2>1
    <3> QED
      BY <1>1, <1>5, <3>1, <3>2 DEF FromRequired
  <2> QED
    BY <2>2, <2>3 DEF Cause, CountedOnce
<1>9. Sound' /\ Complete' /\ Counted'
  <2> HIDE DEF new
  <2> QED
    BY <1>5, <1>6, <1>7, <1>8, NewStep
<1>10. Cursor'
  <2>1. file = 1 /\ imp = 1 /\ DOMAIN lowest = {}
    BY <1>1 DEF Findings, Cursor, AtReachable, AtForbidden
  <2>2. rule' \in Nat \ {0} /\ rule' <= Len(config.required) + 1
    BY <1>1, <1>2, <1>5, Names DEF Findings
  <2> QED
    BY <1>1, <1>5, <2>1, <2>2, FreshCursor DEF Findings
<1> QED
  BY <1>5, <1>9, <1>10 DEF Findings

(* A walk from an import finds what Leads says. *)
LEMMA ImportStep ==
    ASSUME Findings, Inv', ReachableImport
    PROVE  Findings'
<1> DEFINE d == CurrentFile.imports[imp]
           walked == IF d.type = "local" /\ d.resolved # "" THEN Closed({d.resolved}) ELSE {}
           targets == {q \in walked : MatchesPackage(Rule.to, q, Captures(Rule.from, CurrentFile.path)) = "yes"}
<1>0. /\ AtReachable /\ file <= Len(files) /\ Selected /\ imp <= Len(CurrentFile.imports)
      /\ lowest' = Lower(targets, d.line) /\ imp' = imp + 1
      /\ UNCHANGED <<config, files, phase, rule, file, found, violations>>
  BY DEF ReachableImport, Fail, Inv, NextImport
<1>l. lowest' = Lower(targets, d.line)
  BY <1>0
<1>1. /\ AtReachable /\ file <= Len(files) /\ Selected /\ imp <= Len(CurrentFile.imports)
      /\ imp' = imp + 1
      /\ UNCHANGED <<config, files, phase, rule, file, found, violations>>
  BY <1>0
<1>2. /\ Len(files) \in Nat /\ file \in FileSites /\ imp \in 1..Len(CurrentFile.imports)
      /\ Len(CurrentFile.imports) \in Nat
      /\ \A i \in 1..Len(CurrentFile.imports) : CurrentFile.imports[i].line \in Nat
  <2>1. Len(files) \in Nat /\ file \in Nat \ {0} /\ imp \in Nat \ {0}
    BY Scanned DEF Findings, Shape, Cursor
  <2>2. file \in FileSites
    BY <1>1, <2>1 DEF FileSites
  <2>3. files[file] \in FilesOf(files)
    BY <2>2, Scanned DEF Findings, Shape
  <2> DEFINE imports == CurrentFile.imports
  <2>4. Len(imports) \in Nat /\ \A i \in 1..Len(imports) : imports[i] \in Import
    BY <2>3, Scanned DEF Findings, Shape, CurrentFile
  <2> HIDE DEF imports
  <2>5. \A i \in 1..Len(imports) : imports[i].line \in Nat
    BY <2>4 DEF Import
  <2>6. imp <= Len(imports)
    BY <1>1 DEF imports
  <2>7. imp \in 1..Len(imports)
    BY <2>1, <2>4, <2>6
  <2> QED
    BY <2>1, <2>2, <2>4, <2>5, <2>7 DEF imports
<1>3. \A q : q \in targets <=> Leads(Rule, d, q) /\ Wanted(Rule, CurrentFile, q)
  BY DEF Leads, Wanted, Closed
<1>4. targets \subseteq Known(files)
  BY DEF Closed, Reach, Edges
<1>d. d.line \in Nat
  BY <1>2
<1>e. d = CurrentFile.imports[imp]
  OBVIOUS
<1> HIDE DEF d, walked, targets
<1> DEFINE r == Rule
           f == CurrentFile
           L(i, q) == Leads(r, f.imports[i], q)
<1>5. /\ \A q \in DOMAIN lowest : q \in Known(files) /\ First(r, f, imp - 1, q, lowest[q])
      /\ \A q \in Known(files) : q \in DOMAIN lowest <=> Finds(r, f, imp - 1, q)
  BY <1>1 DEF Findings, Cursor
<1>6. DOMAIN lowest' = DOMAIN lowest \cup targets
  BY <1>l DEF Lower
<1>7. \A i : i \in 1..imp <=> i \in 1..(imp - 1) \/ i = imp
  BY <1>2
<1>8. \A q \in Known(files) : q \in DOMAIN lowest' <=> Finds(r, f, imp, q)
  <2> SUFFICES ASSUME NEW q \in Known(files) PROVE q \in DOMAIN lowest' <=> Finds(r, f, imp, q)
    OBVIOUS
  <2>1. Finds(r, f, imp, q) <=> Finds(r, f, imp - 1, q) \/ q \in targets
    BY <1>1, <1>3, <1>7, <1>e DEF Finds, Selected
  <2> QED
    BY <1>5, <1>6, <2>1
<1>9. ASSUME NEW q \in DOMAIN lowest' PROVE q \in Known(files) /\ First(r, f, imp, q, lowest'[q])
  <2>1. q \in Known(files)
    BY <1>4, <1>5, <1>6
  <2>2. lowest'[q] = IF q \in targets /\ (q \in DOMAIN lowest => d.line < lowest[q])
                     THEN d.line ELSE lowest[q]
    BY <1>l, <1>6 DEF Lower
  <2>3. CASE q \notin DOMAIN lowest
    <3>1. q \in targets /\ L(imp, q) /\ Wanted(r, f, q)
      BY <1>3, <1>6, <1>e, <2>3
    <3>2. ~Finds(r, f, imp - 1, q)
      BY <1>5, <2>1, <2>3
    <3>3. \A i \in 1..imp - 1 : ~L(i, q)
      BY <1>1, <3>1, <3>2 DEF Finds, Selected
    <3>4. lowest'[q] = d.line
      BY <2>2, <2>3, <3>1
    <3>5. d.line <= d.line
      BY <1>d
    <3>6. imp \in 1..imp
      BY <1>2
    <3> QED
      BY <1>7, <1>e, <2>1, <3>1, <3>3, <3>4, <3>5, <3>6 DEF First
  <2>4. CASE q \in DOMAIN lowest
    <3>1. First(r, f, imp - 1, q, lowest[q]) /\ Wanted(r, f, q)
      BY <1>5, <2>1, <2>4 DEF Finds
    <3>2. PICK i \in 1..imp - 1 : L(i, q) /\ lowest[q] = f.imports[i].line
      BY <3>1 DEF First
    <3>3. lowest[q] \in Nat /\ d.line \in Nat
      BY <1>2, <1>d, <3>2
    <3>4. CASE q \in targets /\ d.line < lowest[q]
      <4>1. lowest'[q] = d.line /\ L(imp, q)
        BY <1>3, <1>e, <2>2, <3>4
      <4>2. \A n \in 1..imp - 1 : L(n, q) => d.line <= f.imports[n].line
        <5> SUFFICES ASSUME NEW n \in 1..imp - 1, L(n, q) PROVE d.line <= f.imports[n].line
          OBVIOUS
        <5>1. lowest[q] <= f.imports[n].line /\ f.imports[n].line \in Nat
          BY <1>2, <3>1 DEF First
        <5> QED
          BY <3>3, <3>4, <5>1
      <4>3. imp \in 1..imp /\ d.line <= d.line
        BY <1>2, <1>d
      <4> QED
        BY <1>7, <1>e, <2>1, <4>1, <4>2, <4>3 DEF First
    <3>5. CASE ~(q \in targets /\ d.line < lowest[q])
      <4>1. lowest'[q] = lowest[q]
        BY <2>2, <2>4, <3>5
      <4>2. L(imp, q) => lowest[q] <= d.line
        BY <1>3, <1>e, <3>1, <3>3, <3>5
      <4>3. \A n \in 1..imp - 1 : L(n, q) => lowest[q] <= f.imports[n].line
        BY <3>1 DEF First
      <4>4. i \in 1..imp
        BY <1>7
      <4> QED
        BY <1>7, <1>e, <2>1, <3>2, <4>1, <4>2, <4>3, <4>4 DEF First
    <3> QED
      BY <3>4, <3>5
  <2> QED
    BY <2>3, <2>4
<1>10. Cursor'
  <2>0. imp' - 1 = imp /\ imp' \in Nat \ {0}
    BY <1>1, <1>2
  <2>a. Rule' = r /\ CurrentFile' = f
    BY <1>1 DEF Rule, CurrentFile
  <2>b. AtReachable' /\ Selected'
    BY <1>1, <2>a DEF AtReachable, AtForbidden, Selected, ReachableRule, FolderRule
  <2>1. /\ AtReachable' /\ Selected' /\ imp' - 1 = imp /\ imp' \in Nat \ {0}
        /\ Rule' = r /\ CurrentFile' = f
    BY <2>0, <2>a, <2>b
  <2>2. imp' <= Len(f.imports) + 1
    BY <1>1, <1>2
  <2>3. \A q \in DOMAIN lowest' : First(Rule, CurrentFile, imp - 1, q, lowest[q])'
    <3>1. \A q \in DOMAIN lowest' : First(r, f, imp, q, lowest'[q])
      BY <1>9
    <3> QED
      BY <1>1, <2>1, <3>1, Static
  <2>4. \A q \in Known(files) : q \in DOMAIN lowest' <=> Finds(Rule, CurrentFile, imp - 1, q)'
    BY <1>1, <1>8, <2>1, Static
  <2>5. /\ rule \in Nat \ {0} /\ file \in Nat \ {0} /\ rule <= Len(config.forbidden) + 1
        /\ phase = "forbidden" /\ file <= Len(files) + 1
    BY <1>1 DEF Findings, Cursor, AtReachable, AtForbidden
  <2> HIDE DEF r, f, L
  <2> QED
    BY <1>1, <1>9, <2>1, <2>2, <2>3, <2>4, <2>5 DEF Cursor
<1>11. Shape'
  BY <1>1 DEF Findings, Shape, Listed, Violation
<1>12. FileSites' = FileSites
  BY <1>1, Static
<1>13. Passed' = Passed /\ \A j : Walked(j)' = Walked(j)
  BY <1>1, <1>12 DEF Passed, Walked
<1>14. All' = All
  BY <1>1 DEF All, Reported
<1>15. Onward /\ (AllowedPassed' <=> AllowedPassed)
  BY <1>1, <1>13 DEF Onward, AllowedPassed, FailClosed
<1>16. \A j \in 1..Len(config.forbidden) : Covered(j)'
  BY <1>1, <1>13, <1>14, CoveredKept DEF Findings, Complete
<1> QED
  BY <1>1, <1>10, <1>11, <1>15, <1>16, StillStep DEF Findings

(* The fields of a walk's violation.                                        *)
LEMMA ReachableFields ==
    ASSUME NEW v, NEW r, NEW f, NEW q, NEW line, v = ReachableViolation(r, f, q, line)
    PROVE  v.kind = "reachable" /\ v.rule = r.name /\ v.path = f.path /\ v.line = line /\ v.target = q
  BY DEF ReachableViolation

(* A violation of a walk names its rule, its file and its target. *)
LEMMA ReachesNames ==
    ASSUME NEW j, NEW v, FromForbidden(j, v), v.kind = "reachable"
    PROVE  /\ v.rule = config.forbidden[j].name
           /\ \E k \in Walked(j) : Reaches(config.forbidden[j], k, v)
           /\ IsReachable(config.forbidden[j])
<1> DEFINE r == config.forbidden[j]
<1>1. ~Makes(r, v)
  <2>1. \A p, q : v # FolderViolation(r, p, q)
    <3> SUFFICES ASSUME NEW p, NEW q, v = FolderViolation(r, p, q) PROVE FALSE
      OBVIOUS
    <3>1. v.kind = "forbidden"
      BY DEF FolderViolation
    <3> QED
      BY <3>1
  <2>2. \A kind \in {"unreachable", "forbidden"} : \A f : v # SourceViolation(r, kind, f)
    <3> SUFFICES ASSUME NEW kind \in {"unreachable", "forbidden"}, NEW f,
                        v = SourceViolation(r, kind, f)
                 PROVE  FALSE
      OBVIOUS
    <3>1. v.kind = kind
      BY DEF SourceViolation
    <3> QED
      BY <3>1
  <2>3. \A s : v # EdgeOf(r, s)
    <3> SUFFICES ASSUME NEW s, v = EdgeOf(r, s) PROVE FALSE
      OBVIOUS
    <3>1. v.kind = "forbidden"
      BY DEF EdgeOf, EdgeViolation
    <3> QED
      BY <3>1
  <2> QED
    BY <2>1, <2>2, <2>3 DEF Makes
<1>2. PICK k \in Walked(j) : IsReachable(r) /\ Reaches(r, k, v)
  BY <1>1 DEF FromForbidden
<1>3. PICK f, q, line : v = ReachableViolation(r, f, q, line)
  BY <1>2 DEF Reaches
<1>4. v.rule = r.name
  BY <1>3 DEF ReachableViolation
<1> QED
  BY <1>2, <1>4

(* ReachableFile turns the map of a file into its violations.               *)
LEMMA FileStep ==
    ASSUME Findings, Inv', ReachableFile
    PROVE  Findings'
<1>1. /\ AtReachable /\ file <= Len(files)
      /\ Selected => imp > Len(CurrentFile.imports)
      /\ file' = file + 1 /\ imp' = 1 /\ lowest' = <<>>
      /\ UNCHANGED <<config, files, phase, rule, violations>>
  BY DEF ReachableFile
<1>2. PICK i, r, k, f : i = rule /\ r = Rule /\ k = file /\ f = CurrentFile
  OBVIOUS
<1> DEFINE violation == [q \in DOMAIN lowest |-> ReachableViolation(r, f, q, lowest[q])]
           new == {violation[q] : q \in DOMAIN lowest}
           imports == f.imports
<1>3. found' = found (+) BagOf(violation)
  BY <1>2 DEF ReachableFile
<1>4. /\ phase = "forbidden" /\ i \in 1..Len(config.forbidden) /\ Active(r) /\ IsReachable(r)
      /\ r = config.forbidden[i] /\ WellScanned(files) /\ Inv /\ Shape
  <2>1. rule \in 1..Len(config.forbidden)
    BY <1>1, Names DEF AtReachable, AtForbidden, Findings, Inv
  <2> QED
    BY <1>1, <1>2, <2>1
    DEF AtReachable, AtForbidden, ReachableRule, FolderRule, IsReachable, IsFolder, Rule, Findings, Shape
<1>5. k \in FileSites /\ f = files[k] /\ file \in Nat \ {0} /\ Len(files) \in Nat /\ rule \in Nat \ {0}
  <2>1. Len(files) \in Nat /\ file \in Nat \ {0} /\ rule \in Nat \ {0}
    BY <1>4, Scanned DEF Findings, Cursor
  <2> QED
    BY <1>1, <1>2, <2>1 DEF FileSites, CurrentFile
<1>6. /\ Len(imports) \in Nat
      /\ \A n \in 1..Len(imports) : imports[n].line \in Nat
  BY <1>4, <1>5, Scanned DEF Import
<1>7. /\ \A q \in DOMAIN lowest : q \in Known(files) /\ First(r, f, Len(imports), q, lowest[q])
      /\ \A q \in Known(files) : q \in DOMAIN lowest <=> WalkHit(r, f, q)
  <2>1. /\ Selected => imp <= Len(imports) + 1
        /\ \A q \in DOMAIN lowest : q \in Known(files) /\ First(r, f, imp - 1, q, lowest[q])
        /\ \A q \in Known(files) : q \in DOMAIN lowest <=> Finds(r, f, imp - 1, q)
        /\ imp \in Nat \ {0}
    BY <1>1, <1>2 DEF Findings, Cursor
  <2>2. Selected <=> MatchesFile(files, r.from, f)
    BY <1>2 DEF Selected
  <2>3. CASE Selected
    <3>1. imp > Len(imports)
      BY <1>1, <1>2, <2>3
    <3>2. imp - 1 = Len(imports)
      BY <1>6, <2>1, <2>3, <3>1
    <3> HIDE DEF imports
    <3>3. /\ \A q \in DOMAIN lowest : q \in Known(files) /\ First(r, f, Len(imports), q, lowest[q])
          /\ \A q \in Known(files) : q \in DOMAIN lowest <=> Finds(r, f, Len(imports), q)
      BY <2>1, <3>2
    <3> QED
      BY <3>3 DEF WalkHit, imports
  <2>4. CASE ~Selected
    <3>1. \A n, q : ~Finds(r, f, n, q)
      BY <2>2, <2>4 DEF Finds
    <3> QED
      BY <2>1, <3>1 DEF WalkHit
  <2> QED
    BY <2>3, <2>4
<1>8. \A q \in DOMAIN lowest : lowest[q] \in Nat
  BY <1>6, <1>7 DEF First
<1>9. \A q \in DOMAIN lowest : violation[q] \in Violation
  <2>1. r.name \in Strings /\ r.severity \in Strings
    BY <1>4, RuleTypes
  <2> QED
    BY <1>4, <1>5, <1>7, <1>8, <2>1, PackageTyped
<1>10. IsFiniteSet(DOMAIN lowest)
  BY <1>4, <1>7, FiniteSites, FS_Subset
<1>11. DOMAIN violation = DOMAIN lowest
  OBVIOUS
<1>12. \A q \in DOMAIN lowest : violation[q] = ReachableViolation(r, f, q, lowest[q])
  OBVIOUS
<1> HIDE DEF violation
<1>13. /\ found' \in [DOMAIN found' -> Nat \ {0}]
       /\ (DOMAIN found \subseteq Violation)'
       /\ All' = All \cup new
       /\ \A v \in All : v \notin new => Copies(v)' = Copies(v)
       /\ \A v : v \notin All => Copies(v)' = Cardinality({q \in DOMAIN violation : violation[q] = v})
  BY <1>1, <1>3, <1>4, <1>9, <1>10, <1>11, AddBag
<1>14. /\ FileSites' = FileSites /\ UNCHANGED <<config, files>>
  BY <1>1, Static
<1>15. /\ Passed' = Passed /\ i \notin Passed
  BY <1>1, <1>2, <1>4, <1>5 DEF Passed
<1>16. \A j : j # i => Walked(j)' = Walked(j)
  BY <1>1, <1>2, <1>14, <1>15 DEF Walked
<1>17. Walked(i) = 1..(file - 1) /\ Walked(i)' = 1..file /\ Walked(i)' = Walked(i) \cup {k} /\ k \notin Walked(i)
  <2>1. Walked(i) = 1..(file - 1) /\ Walked(i)' = 1..(file' - 1)
    BY <1>1, <1>2, <1>4, <1>15 DEF Walked
  <2> QED
    BY <1>1, <1>2, <1>5, <2>1
<1>18. ~AllowedPassed /\ ~AllowedPassed'
  BY <1>1, <1>4 DEF AllowedPassed
<1>19. Onward
  <2>1. \A j : Walked(j) \subseteq Walked(j)'
    BY <1>16, <1>17
  <2> QED
    BY <1>1, <1>4, <1>14, <1>15, <1>18, <2>1 DEF Onward
<1>20. \A q \in DOMAIN lowest : Reaches(r, k, violation[q])
  <2> SUFFICES ASSUME NEW q \in DOMAIN lowest PROVE Reaches(r, k, violation[q])
    OBVIOUS
  <2>1. violation[q].line = lowest[q]
    BY <1>12, ReachableFields
  <2> QED
    BY <1>5, <1>7, <1>12, <2>1 DEF Reaches
<1>21. ASSUME NEW v \in new PROVE Cause(v)' /\ CountedOnce(v)'
  <2>0. PICK q \in DOMAIN lowest : v = violation[q]
    OBVIOUS
  <2>1. FromForbidden(i, v)'
    <3>1. Reaches(r, k, v)'
      BY <1>14, <1>20, <2>0, RulesStatic
    <3> QED
      BY <1>4, <1>14, <1>17, <3>1 DEF FromForbidden
  <2>2. Cause(v)'
    BY <1>4, <1>14, <2>1 DEF Cause
  <2>3. v = ReachableViolation(r, f, q, lowest[q])
    BY <1>12, <2>0
  <2>4. v.kind = "reachable" /\ v.rule = r.name /\ v.path = f.path
    BY <2>3, ReachableFields
  <2>5. v \notin All
    <3> SUFFICES ASSUME v \in All PROVE FALSE
      OBVIOUS
    <3>1. PICK j \in 1..Len(config.forbidden) : FromForbidden(j, v)
      BY <1>4 DEF Findings, Sound, Cause, FromAllowed, AllowedPassed, FromRequired
    <3>2. PICK l \in Walked(j) : Reaches(config.forbidden[j], l, v)
      BY <2>4, <3>1, ReachesNames
    <3>3. config.forbidden[j].name = r.name
      BY <2>4, <3>1, ReachesNames
    <3>4. j = i
      BY <1>4, <3>3, Names
    <3>5. PICK p, line : v = ReachableViolation(config.forbidden[j], files[l], p, line)
      BY <3>2 DEF Reaches
    <3>6. v.path = files[l].path
      BY <3>5, ReachableFields
    <3>7. l \in FileSites
      BY <1>1, <1>5, <1>17, <3>4 DEF FileSites
    <3>8. l = k
      BY <1>4, <1>5, <2>4, <3>6, <3>7 DEF WellScanned, FileSites
    <3> QED
      BY <1>17, <3>4, <3>8
  <2>6. {p \in DOMAIN violation : violation[p] = v} = {q}
    <3>1. \A p \in DOMAIN lowest : violation[p].target = p
      BY <1>12, ReachableFields
    <3> QED
      BY <1>11, <2>0, <3>1
  <2>7. Copies(v)' = 1
    <3>1. Cardinality({q}) = 1
      BY FS_Singleton
    <3> HIDE DEF new
    <3> QED
      BY <1>13, <2>5, <2>6, <3>1
  <2> QED
    BY <2>2, <2>4, <2>7 DEF CountedOnce
<1>22. \A v \in new : Cause(v)' /\ CountedOnce(v)'
  <2> HIDE DEF new
  <2> QED
    BY <1>21
<1>23. ASSUME NEW j \in 1..Len(config.forbidden) PROVE Covered(j)'
  <2>1. CASE j = i
    <3>1. \A l \in Walked(i) : OwesReached(r, l, All)
      BY <1>4 DEF Findings, Complete, Covered
    <3>2. \A l \in Walked(i)' : OwesReached(r, l, All')
      <4> SUFFICES ASSUME NEW l \in Walked(i)' PROVE OwesReached(r, l, All')
        OBVIOUS
      <4>1. CASE l \in Walked(i)
        BY <1>13, <3>1, <4>1 DEF OwesReached
      <4>2. CASE l = k
        <5> SUFFICES ASSUME NEW q \in Known(files), WalkHit(r, files[l], q)
                     PROVE  \E v \in All' : v = ReachableViolation(r, files[l], q, v.line)
          BY DEF OwesReached
        <5>1. q \in DOMAIN lowest
          BY <1>5, <1>7, <4>2
        <5>2. violation[q] = ReachableViolation(r, f, q, lowest[q]) /\ violation[q] \in All'
          BY <1>12, <1>13, <5>1
        <5>3. violation[q].line = lowest[q]
          BY <5>2, ReachableFields
        <5> QED
          BY <1>5, <4>2, <5>2, <5>3
      <4> QED
        BY <1>17, <4>1, <4>2
    <3>3. \A l : OwesReached(r, l, All)' <=> OwesReached(r, l, All')
      BY <1>14, RulesStatic
    <3> QED
      BY <1>4, <1>14, <1>15, <2>1, <3>2, <3>3 DEF Covered
  <2>2. CASE j # i
    BY <1>13, <1>14, <1>15, <1>16, <2>2, CoveredKept DEF Findings, Complete
  <2> QED
    BY <2>1, <2>2
<1>24. Sound' /\ Complete' /\ Counted'
  <2> HIDE DEF new
  <2> QED
    BY <1>13, <1>18, <1>19, <1>22, <1>23, NewStep
<1>25. Cursor'
  <2>1. \A q : ~Finds(Rule, CurrentFile, imp - 1, q)'
    BY <1>1 DEF Finds
  <2>2. DOMAIN lowest' = {}
    BY <1>1
  <2>3. file' <= Len(files) => Len(CurrentFile.imports)' \in Nat
    <3>1. file' <= Len(files) => file' \in FileSites
      BY <1>1, <1>5 DEF FileSites
    <3> QED
      BY <1>1, <1>4, <3>1, Scanned DEF CurrentFile
  <2>4. AtReachable'
    BY <1>1 DEF AtReachable, AtForbidden, ReachableRule, FolderRule, Rule
  <2>5. rule' \in Nat \ {0} /\ rule' <= Len(config.forbidden) + 1
    BY <1>1, <1>4 DEF Findings, Cursor
  <2>6. file' \in Nat \ {0} /\ file' <= Len(files) + 1
    BY <1>1, <1>5
  <2> QED
    BY <1>1, <1>4, <2>1, <2>2, <2>3, <2>4, <2>5, <2>6 DEF Cursor
<1>26. Shape'
  BY <1>1, <1>4, <1>13 DEF Shape, Listed
<1> QED
  BY <1>24, <1>25, <1>26 DEF Findings

(* Steps that report nothing. *)
LEMMA EndStep ==
    ASSUME Findings, Inv', ReachableEnd
    PROVE  Findings'
<1>1. /\ AtReachable /\ file > Len(files) /\ file' = 1 /\ rule' = rule + 1
      /\ UNCHANGED <<config, files, phase, imp, lowest, found, violations>>
  BY DEF ReachableEnd
<1>2. PICK i, r : i = rule /\ r = Rule
  OBVIOUS
<1>3. /\ phase = "forbidden" /\ rule <= Len(config.forbidden) /\ i \in 1..Len(config.forbidden)
      /\ Active(r) /\ IsReachable(r) /\ r = config.forbidden[i] /\ Shape
  <2>1. rule \in 1..Len(config.forbidden)
    BY <1>1, Names DEF AtReachable, AtForbidden, Findings, Inv
  <2> QED
    BY <1>1, <1>2, <2>1
    DEF AtReachable, AtForbidden, ReachableRule, FolderRule, IsReachable, IsFolder, Rule, Findings
<1>4. /\ imp = 1 /\ DOMAIN lowest = {} /\ file = Len(files) + 1 /\ Len(files) \in Nat
      /\ rule \in Nat \ {0} /\ Len(config.forbidden) \in Nat
  <2>1. Len(files) \in Nat /\ Len(config.forbidden) \in Nat
    BY <1>3, Scanned, Names DEF Findings, Shape
  <2>2. ~(file <= Len(files))
    BY <1>1, <2>1 DEF Findings, Cursor
  <2>3. imp = 1 /\ DOMAIN lowest = {} /\ file <= Len(files) + 1 /\ file \in Nat /\ rule \in Nat \ {0}
    BY <2>2 DEF Findings, Cursor
  <2> QED
    BY <1>1, <2>1, <2>3
<1>5. Walked(rule) \in {{}, FileSites}
  <2>1. 1..(file - 1) = FileSites
    BY <1>4 DEF FileSites
  <2> QED
    BY <2>1 DEF Walked
<1>6. /\ Onward
      /\ \A j : j \in Passed' <=> j \in Passed \/ j = rule
      /\ rule \notin Passed
      /\ \A j : j # rule => Walked(j)' = Walked(j)
      /\ \A j : j = rule => Walked(j)' = FileSites
      /\ ~AllowedPassed /\ ~AllowedPassed'
  BY <1>1, <1>3, <1>5, NextForbidden
<1>7. All' = All
  BY <1>1 DEF All, Reported
<1>8. ASSUME NEW j \in 1..Len(config.forbidden) PROVE Covered(j)'
  <2>1. CASE j = i
    <3>1. Walked(i) = FileSites
      <4>1. Walked(i) = 1..(file - 1)
        BY <1>2, <1>3, <1>6 DEF Walked
      <4> QED
        BY <1>4, <4>1 DEF FileSites
    <3>2. \A k \in FileSites : OwesReached(r, k, All)
      BY <1>3, <3>1 DEF Findings, Complete, Covered
    <3>3. \A k \in FileSites : OwesReached(r, k, All)'
      <4>1. \A k : OwesReached(r, k, All)' <=> OwesReached(r, k, All')
        BY <1>1, RulesStatic
      <4> QED
        BY <1>7, <3>2, <4>1
    <3>4. Owes(r, All)'
      BY <1>3 DEF Owes, IsReachable, IsUnreachable, IsModule
    <3>5. Walked(j)' = FileSites /\ config.forbidden'[j] = r
      BY <1>1, <1>2, <1>3, <1>6, <2>1
    <3> QED
      BY <1>1, <2>1, <3>3, <3>4, <3>5 DEF Covered
  <2>2. CASE j # i
    BY <1>1, <1>2, <1>6, <1>7, <2>2, CoveredKept DEF Findings, Complete
  <2> QED
    BY <2>1, <2>2
<1>9. Sound' /\ Complete' /\ Counted'
  BY <1>1, <1>6, <1>8, StillStep
<1>10. Cursor'
  <2>1. rule' \in Nat \ {0} /\ rule' <= Len(config.forbidden) + 1
    BY <1>1, <1>3, <1>4
  <2> QED
    BY <1>1, <1>3, <1>4, <2>1, FreshCursor
<1>11. Shape'
  BY <1>1 DEF Findings, Shape, Listed, Violation
<1> QED
  BY <1>9, <1>10, <1>11 DEF Findings

(* An ignored rule owes nothing.                                            *)
LEMMA SkipStep ==
    ASSUME Findings, Inv', SkipIgnored
    PROVE  Findings'
<1>1. /\ rule' = rule + 1
      /\ UNCHANGED <<config, files, phase, file, imp, lowest, found, violations>>
  BY DEF SkipIgnored
<1>2. ~AtReachable /\ phase \in {"forbidden", "required"}
  BY DEF SkipIgnored, AtReachable, AtForbidden, Rule
<1>3. file = 1 /\ imp = 1 /\ DOMAIN lowest = {} /\ rule \in Nat \ {0} /\ Shape
  BY <1>2 DEF Findings, Cursor
<1>4. /\ phase = "forbidden" => rule <= Len(config.forbidden) /\ ~Active(config.forbidden[rule])
      /\ phase = "required" => rule <= Len(config.required)
  BY DEF SkipIgnored
<1>5. Len(config.forbidden) \in Nat /\ Len(config.required) \in Nat
  BY Names DEF Findings
<1>6. All' = All
  BY <1>1 DEF All, Reported
<1>7. Sound' /\ Complete' /\ Counted'
  <2>1. CASE phase = "forbidden"
    <3>1. Walked(rule) \in {{}, FileSites}
      BY <1>3 DEF Walked
    <3>2. /\ Onward
          /\ \A j : j \in Passed' <=> j \in Passed \/ j = rule
          /\ \A j : j # rule => Walked(j)' = Walked(j)
          /\ ~AllowedPassed /\ ~AllowedPassed'
      BY <1>1, <1>3, <1>4, <2>1, <3>1, NextForbidden
    <3>3. ASSUME NEW j \in 1..Len(config.forbidden) PROVE Covered(j)'
      <4>1. CASE j = rule
        BY <1>1, <1>4, <2>1, <4>1 DEF Covered
      <4>2. CASE j # rule
        BY <1>1, <1>6, <3>2, <4>2, CoveredKept DEF Findings, Complete
      <4> QED
        BY <4>1, <4>2
    <3> QED
      BY <1>1, <3>2, <3>3, StillStep
  <2>2. CASE phase = "required"
    <3>1. /\ \A j \in 1..Len(config.forbidden) : Covered(j)'
          /\ \A j : Walked(j)' = Walked(j) /\ (j \in Passed' <=> j \in Passed)
      BY <1>1, <1>6, <2>2, Settled
    <3>2. AllowedPassed' <=> AllowedPassed
      BY <1>1, <2>2 DEF AllowedPassed, FailClosed
    <3>3. Onward
      BY <1>1, <2>2, <3>1, <3>2 DEF Onward
    <3> QED
      BY <1>1, <3>1, <3>2, <3>3, StillStep
  <2> QED
    BY <1>2, <2>1, <2>2
<1>8. Cursor'
  <2>1. /\ rule' \in Nat \ {0}
        /\ phase' = "forbidden" => rule' <= Len(config.forbidden) + 1
        /\ phase' = "required" => rule' <= Len(config.required) + 1
    BY <1>1, <1>3, <1>4, <1>5
  <2> QED
    BY <1>1, <1>2, <1>3, <2>1, FreshCursor
<1>9. Shape'
  BY <1>1 DEF Findings, Shape, Listed, Violation
<1> QED
  BY <1>7, <1>8, <1>9 DEF Findings

(* The end of a list of rules. *)
LEMMA EnterStep ==
    ASSUME Findings, Inv', EndForbidden \/ EndAllowed \/ EndRequired
    PROVE  Findings'
<1>1. /\ rule' = 1 /\ UNCHANGED <<config, files, file, imp, lowest, found, violations>>
      /\ phase' \in {"allowed", "required", "sort"}
  BY DEF EndForbidden, EndAllowed, EndRequired, Enter
<1>2. /\ \/ phase = "forbidden" /\ rule > Len(config.forbidden) /\ phase' = "allowed"
         \/ phase = "allowed" /\ phase' = "required" /\ (FailClosed => rule > 1)
         \/ phase = "required" /\ phase' = "sort"
  BY DEF EndForbidden, EndAllowed, EndRequired, Enter
<1>3. Len(config.forbidden) \in Nat /\ Len(config.required) \in Nat /\ Shape /\ rule \in Nat
  BY Names DEF Findings, Cursor
<1>4. ~AtReachable
  BY <1>2, <1>3 DEF AtReachable, AtForbidden
<1>5. file = 1 /\ imp = 1 /\ DOMAIN lowest = {}
  BY <1>4 DEF Findings, Cursor
<1>6. Passed' = Passed /\ Passed = 1..Len(config.forbidden)
  <2>1. phase = "forbidden" => rule - 1 = Len(config.forbidden)
    BY <1>2, <1>3 DEF Findings, Cursor
  <2> QED
    BY <1>1, <2>1 DEF Passed
<1>7. \A j \in 1..Len(config.forbidden) : Walked(j)' = Walked(j)
  <2>1. FileSites' = FileSites
    BY <1>1, Static
  <2> QED
    BY <1>6, <2>1 DEF Walked
<1>8. AllowedPassed' <=> AllowedPassed
  <2>1. FailClosed' <=> FailClosed
    BY <1>1 DEF FailClosed
  <2> QED
    BY <1>1, <1>2, <2>1 DEF AllowedPassed
<1>9. Onward
  BY <1>1, <1>2, <1>6, <1>7, <1>8 DEF Onward
<1>10. All' = All
  BY <1>1 DEF All, Reported
<1>11. \A j \in 1..Len(config.forbidden) : Covered(j)'
  BY <1>1, <1>6, <1>7, <1>10, CoveredKept DEF Findings, Complete
<1>12. Sound' /\ Complete' /\ Counted'
  BY <1>1, <1>8, <1>9, <1>11, StillStep
<1>13. Cursor'
  <2>1. rule' \in Nat \ {0} /\ rule' <= Len(config.required) + 1
    BY <1>1, <1>3
  <2> QED
    BY <1>1, <1>3, <1>5, <2>1, FreshCursor
<1>14. Shape'
  <2>1. Violation' = Violation
    BY <1>1, Static
  <2>2. phase \notin {"sort", "done"} /\ phase' \in Phases /\ phase' # "done"
    BY <1>1, <1>2 DEF Phases
  <2> QED
    BY <1>1, <1>3, <2>1, <2>2 DEF Shape, Listed
<1> QED
  BY <1>12, <1>13, <1>14 DEF Findings

(* Sorting moves a violation from the bag to the result. *)
LEMMA Moved ==
    ASSUME Shape, NEW v \in DOMAIN found, violations' = Append(violations, v),
           found' = found (-) SetToBag({v}), UNCHANGED <<config, files, phase>>
    PROVE  /\ found' \in [DOMAIN found' -> Nat \ {0}]
           /\ DOMAIN found' \subseteq DOMAIN found
           /\ violations' \in Seq(Violation)
           /\ All' = All
           /\ \A w : Copies(w)' = Copies(w)
<1> DEFINE n == Len(violations)
           at(w) == {i \in 1..n : violations[i] = w}
           left == [w \in DOMAIN found |-> IF w \in {v} THEN found[w] - 1 ELSE found[w]]
<1>1. found \in [DOMAIN found -> Nat \ {0}] /\ v \in Violation /\ violations \in Seq(Violation)
  BY DEF Shape
<1>2. SetToBag({v}) = [w \in {v} |-> 1]
  BY DEF SetToBag
<1>3. found' = [w \in {d \in DOMAIN left : left[d] > 0} |-> left[w]]
  <2>1. left = [w \in DOMAIN found |-> IF w \in DOMAIN SetToBag({v})
                                       THEN found[w] - SetToBag({v})[w] ELSE found[w]]
    BY <1>2
  <2> HIDE DEF left
  <2> QED
    BY <2>1 DEF (-)
<1>4. \A w \in DOMAIN found : left[w] \in Nat
  BY <1>1
<1>5. \A w \in DOMAIN found : left[w] > 0 <=> w # v \/ found[v] # 1
  BY <1>1
<1>6. DOMAIN found' = {w \in DOMAIN found : w # v \/ found[v] # 1}
  BY <1>3, <1>5
<1>7. found' \in [DOMAIN found' -> Nat \ {0}]
  <2>1. ASSUME NEW w \in DOMAIN found' PROVE found'[w] = left[w] /\ left[w] \in Nat \ {0}
    <3> HIDE DEF left
    <3>1. w \in DOMAIN left /\ left[w] > 0 /\ found'[w] = left[w]
      BY <1>3
    <3>2. left[w] \in Nat
      BY <1>4, <3>1 DEF left
    <3> QED
      BY <3>1, <3>2
  <2>2. found' = [w \in DOMAIN found' |-> found'[w]]
    BY <1>3
  <2> HIDE DEF left
  <2> QED
    BY <2>1, <2>2
<1>8. n \in Nat /\ Len(violations') = n + 1 /\ violations'[n + 1] = v
      /\ \A i \in 1..n : violations'[i] = violations[i]
  BY <1>1
<1>9. violations' \in Seq(Violation)
  BY <1>1
<1>10. 1..Len(violations') = 1..n \cup {n + 1} /\ n + 1 \notin 1..n
  BY <1>8
<1>11. \A w : {i \in 1..Len(violations') : violations'[i] = w} =
                IF w = v THEN at(w) \cup {n + 1} ELSE at(w)
  BY <1>8, <1>10
<1>12. \A w : IsFiniteSet(at(w)) /\ Cardinality(at(w)) \in Nat
  <2> SUFFICES ASSUME NEW w PROVE IsFiniteSet(at(w)) /\ Cardinality(at(w)) \in Nat
    OBVIOUS
  <2>1. n \in Int /\ 1 \in Int
    BY <1>8
  <2> HIDE DEF n
  <2>2. IsFiniteSet(1..n)
    BY <2>1, FS_Interval
  <2>3. IsFiniteSet(at(w))
    BY <2>2, FS_Subset
  <2> QED
    BY <2>3, FS_CardinalityType
<1>13. Cardinality(at(v) \cup {n + 1}) = Cardinality(at(v)) + 1
  <2>1. n + 1 \notin at(v)
    BY <1>10
  <2> HIDE DEF at, n
  <2> QED
    BY <1>12, <2>1, FS_AddElement
<1>14. All' = All
  <2>1. Reported' = Reported \cup {v}
    BY <1>8, <1>10 DEF Reported
  <2> QED
    BY <1>6, <2>1 DEF All
<1>15. ASSUME NEW w PROVE Copies(w)' = Copies(w)
  <2> DEFINE c == Cardinality(at(w))
  <2>1. Copies(w) = (IF w \in DOMAIN found THEN found[w] ELSE 0) + c
    BY DEF Copies
  <2>2. Copies(w)' = (IF w \in DOMAIN found' THEN found'[w] ELSE 0)
                        + Cardinality({i \in 1..Len(violations') : violations'[i] = w})
    BY DEF Copies
  <2>3. \A u \in DOMAIN found' : found'[u] = left[u]
    BY <1>3
  <2>c. c \in Nat
    BY <1>12
  <2>4. CASE w = v
    <3>1. Cardinality({i \in 1..Len(violations') : violations'[i] = w}) = c + 1
      BY <1>11, <1>13, <2>4
    <3>3. found[v] \in Nat /\ w \in DOMAIN found
      BY <1>1, <2>4
    <3>2. (IF w \in DOMAIN found' THEN found'[w] ELSE 0) = found[v] - 1
      <4>1. CASE w \in DOMAIN found'
        <5>1. found'[w] = found[v] - 1
          BY <2>3, <2>4, <3>3, <4>1
        <5> QED
          BY <4>1, <5>1
      <4>2. CASE w \notin DOMAIN found'
        <5>1. found[v] = 1
          BY <1>6, <2>4, <3>3, <4>2
        <5> QED
          BY <4>2, <5>1
      <4> QED
        BY <4>1, <4>2
    <3> HIDE DEF c, Copies, left
    <3>4. Copies(w)' = (found[v] - 1) + (c + 1)
      BY <2>2, <3>1, <3>2
    <3>5. Copies(w) = found[v] + c
      BY <2>1, <2>4, <3>3
    <3> QED
      BY <2>c, <3>3, <3>4, <3>5
  <2>5. CASE w # v
    <3>1. Cardinality({i \in 1..Len(violations') : violations'[i] = w}) = c
      BY <1>11, <2>5
    <3>2. (IF w \in DOMAIN found' THEN found'[w] ELSE 0) = (IF w \in DOMAIN found THEN found[w] ELSE 0)
      BY <1>6, <2>3, <2>5
    <3> HIDE DEF c, Copies, left
    <3>3. PICK a : a = (IF w \in DOMAIN found THEN found[w] ELSE 0)
      OBVIOUS
    <3>4. Copies(w) = a + c
      BY <2>1, <3>3
    <3>5. Copies(w)' = a + c
      BY <2>2, <3>1, <3>2, <3>3
    <3> QED
      BY <3>4, <3>5
  <2> QED
    BY <2>4, <2>5
<1> QED
  BY <1>6, <1>7, <1>9, <1>14, <1>15

(* The sort moves violations and changes none.                              *)
LEMMA SortStep ==
    ASSUME Findings, Inv', Emit \/ Return \/ Returned \/ UNCHANGED vars
    PROVE  Findings'
<1>1. CASE Emit
  <2>1. PICK v \in DOMAIN found : violations' = Append(violations, v) /\ found' = found (-) SetToBag({v})
    BY <1>1 DEF Emit
  <2>2. phase = "sort" /\ UNCHANGED <<config, files, phase, rule, file, imp, lowest>> /\ Shape
    BY <1>1 DEF Emit, cursor, Findings
  <2>3. /\ found' \in [DOMAIN found' -> Nat \ {0}]
        /\ DOMAIN found' \subseteq DOMAIN found
        /\ violations' \in Seq(Violation)
        /\ All' = All
        /\ \A w : Copies(w)' = Copies(w)
    BY <2>1, <2>2, Moved
  <2>4. Violation' = Violation
    BY <2>2, Static
  <2>5. Shape'
    BY <2>2, <2>3, <2>4 DEF Shape, Listed
  <2>6. /\ \A j \in 1..Len(config.forbidden) : Covered(j)'
        /\ \A j : Walked(j)' = Walked(j) /\ (j \in Passed' <=> j \in Passed)
    BY <2>2, <2>3, Settled
  <2>7. AllowedPassed' <=> AllowedPassed
    BY <2>2 DEF AllowedPassed, FailClosed
  <2>8. Onward
    BY <2>2, <2>6, <2>7 DEF Onward
  <2>9. Sound' /\ Complete' /\ Counted'
    <3>1. PICK new : new = {}
      OBVIOUS
    <3>2. All' = All \cup new /\ (\A w \in new : Cause(w)' /\ CountedOnce(w)')
      BY <2>3, <3>1
    <3>3. \A w \in All : w \notin new => Copies(w)' = Copies(w)
      BY <2>3
    <3> QED
      BY <2>6, <2>7, <2>8, <3>2, <3>3, NewStep
  <2>10. Cursor'
    <3>1. file = 1 /\ imp = 1 /\ DOMAIN lowest = {} /\ rule \in Nat \ {0}
      BY <2>2 DEF Findings, Cursor, AtReachable, AtForbidden
    <3> QED
      BY <2>2, <3>1, FreshCursor
  <2> QED
    BY <2>5, <2>9, <2>10 DEF Findings
<1>2. CASE Return
  <2>2. /\ phase = "sort" /\ phase' = "done" /\ found = EmptyBag
        /\ UNCHANGED <<config, files, rule, file, imp, lowest, found, violations>> /\ Shape
    BY <1>2 DEF Return, cursor, Findings
  <2>3. All' = All
    BY <2>2 DEF All, Reported
  <2>4. Violation' = Violation
    BY <2>2, Static
  <2>5. Shape'
    BY <2>2, <2>4 DEF Shape, Listed, Phases
  <2>6. /\ \A j \in 1..Len(config.forbidden) : Covered(j)'
        /\ \A j : Walked(j)' = Walked(j) /\ (j \in Passed' <=> j \in Passed)
    BY <2>2, <2>3, Settled
  <2>7. AllowedPassed' <=> AllowedPassed
    BY <2>2 DEF AllowedPassed, FailClosed
  <2>8. Onward
    BY <2>2, <2>6, <2>7 DEF Onward
  <2>9. Sound' /\ Complete' /\ Counted'
    BY <2>2, <2>6, <2>7, <2>8, StillStep
  <2>10. Cursor'
    <3>1. file = 1 /\ imp = 1 /\ DOMAIN lowest = {} /\ rule \in Nat \ {0}
      BY <2>2 DEF Findings, Cursor, AtReachable, AtForbidden
    <3> QED
      BY <2>2, <3>1, FreshCursor
  <2> QED
    BY <2>5, <2>9, <2>10 DEF Findings
<1>3. CASE UNCHANGED vars
  <2>1. UNCHANGED <<config, files, phase, rule, file, imp, lowest, found, violations>>
    BY <1>3 DEF vars
  <2>2. All' = All /\ FileSites' = FileSites
    BY <2>1, Static DEF All, Reported
  <2>3. Passed' = Passed /\ \A j : Walked(j)' = Walked(j)
    BY <2>1, <2>2 DEF Passed, Walked
  <2>4. Onward /\ (AllowedPassed' <=> AllowedPassed)
    BY <2>1, <2>3 DEF Onward, AllowedPassed, FailClosed
  <2>5. \A j \in 1..Len(config.forbidden) : Covered(j)'
    BY <2>1, <2>2, <2>3, CoveredKept DEF Findings, Complete
  <2>6. Sound' /\ Complete' /\ Counted'
    BY <2>1, <2>4, <2>5, StillStep
  <2>7. Shape'
    BY <2>1 DEF Findings, Shape, Listed, Violation
  <2>8. Cursor'
    <3>1. /\ (AtReachable <=> AtReachable') /\ (Selected <=> Selected')
          /\ Rule' = Rule /\ CurrentFile' = CurrentFile /\ (FailClosed' <=> FailClosed)
      BY <2>1 DEF AtReachable, AtForbidden, Selected, Rule, CurrentFile, ReachableRule, FolderRule, FailClosed
    <3>2. PICK r, f, n, low : r = Rule /\ f = CurrentFile /\ n = imp - 1 /\ low = lowest
      OBVIOUS
    <3>3. \A q : (Finds(Rule, CurrentFile, imp - 1, q)' <=> Finds(Rule, CurrentFile, imp - 1, q))
      <4>1. \A q : Finds(r, f, n, q)' <=> Finds(r, f, n, q)
        BY <2>1, Static
      <4> QED
        BY <2>1, <3>1, <3>2, <4>1
    <3>4. \A q : First(Rule, CurrentFile, imp - 1, q, lowest[q])' <=>
                 First(Rule, CurrentFile, imp - 1, q, lowest[q])
      <4>1. \A q : First(r, f, n, q, low[q])' <=> First(r, f, n, q, low[q])
        BY <2>1, Static
      <4> QED
        BY <2>1, <3>1, <3>2, <4>1
    <3> QED
      BY <2>1, <3>1, <3>3, <3>4 DEF Findings, Cursor
  <2> QED
    BY <2>6, <2>7, <2>8 DEF Findings
<1> QED
  BY <1>1, <1>2, <1>3 DEF Returned

(* Nothing has been found and nothing is due.                               *)
LEMMA FindingsInit == Init => Findings
<1> SUFFICES ASSUME Init PROVE Findings
  OBVIOUS
<1>1. Inv
  BY InvInit
<1>2. /\ phase = "forbidden" /\ rule = 1 /\ file = 1 /\ imp = 1 /\ DOMAIN lowest = {}
      /\ violations = <<>> /\ DOMAIN found = {}
  BY DEF Init, EmptyBag, SetToBag
<1>3. Listed(config) /\ WellScanned(files)
  BY QuestionsAssumption DEF Init
<1>4. Shape
  <2>1. found \in [DOMAIN found -> Nat \ {0}]
    BY <1>2 DEF Init, EmptyBag, SetToBag
  <2>2. violations \in Seq(Violation)
    BY <1>2
  <2> QED
    BY <1>2, <1>3, <2>1, <2>2 DEF Shape, Phases
<1>5. All = {} /\ ~AllowedPassed
  BY <1>2 DEF All, Reported, AllowedPassed
<1>6. \A j : j \notin Passed /\ Walked(j) = {}
  BY <1>2 DEF Passed, Walked
<1>7. Sound /\ Complete /\ Counted
  BY <1>5, <1>6 DEF Sound, Complete, Covered, Counted
<1>8. Cursor
  <2>1. Len(files) \in Nat /\ \A k \in FileSites : Len(files[k].imports) \in Nat
    BY <1>3, Scanned
  <2>2. file <= Len(files) => Len(CurrentFile.imports) \in Nat
    BY <1>2, <2>1 DEF CurrentFile, FileSites
  <2>3. \A q : ~Finds(Rule, CurrentFile, imp - 1, q)
    BY <1>2 DEF Finds
  <2>4. Len(config.forbidden) \in Nat
    BY <1>3, ListLength DEF Listed
  <2> QED
    BY <1>2, <2>1, <2>2, <2>3, <2>4 DEF Cursor
<1> QED
  BY <1>1, <1>4, <1>7, <1>8 DEF Findings

(* Every action preserves the invariant.                                    *)
LEMMA FindingsStep == Findings /\ [Next]_vars => Findings'
<1> SUFFICES ASSUME Findings, [Next]_vars PROVE Findings'
  OBVIOUS
<1>1. Inv'
  BY InvStep DEF Findings
<1> QED
  BY <1>1, FolderStep, ImportStep, FileStep, EndStep, UnreachableStep, SourceStep, EdgesStep,
     SkipStep, EnterStep, AllowedStep, RequiredStep, SortStep
  DEF Next

(* Evaluate reports what the rules call for, no more and no less. *)
THEOREM FindingsCorrect == Spec => []Findings
  BY FindingsInit, FindingsStep, PTL DEF Spec

-----------------------------------------------------------------------------
(* The result. *)

(* The fields of the four sorts of violations.                              *)
LEMMA SourceFields ==
    ASSUME NEW v, NEW r, NEW kind, NEW f, v = SourceViolation(r, kind, f)
    PROVE  /\ v.rule = r.name /\ v.severity = r.severity /\ v.kind = kind /\ v.path = f.path
           /\ v.line = f.line /\ v.package = f.name /\ v.target = "" /\ v.type = ""
           /\ v.importPath = ""
  BY DEF SourceViolation

LEMMA FolderFields ==
    ASSUME NEW v, NEW r, NEW p, NEW q, v = FolderViolation(r, p, q)
    PROVE  /\ v.rule = r.name /\ v.severity = r.severity /\ v.kind = "forbidden" /\ v.path = p
           /\ v.line = 0 /\ v.package = "" /\ v.target = q /\ v.type = "local"
           /\ v.importPath = ""
  BY DEF FolderViolation

LEMMA EdgeFields ==
    ASSUME NEW v, NEW name, NEW severity, NEW kind, NEW f, NEW d,
           v = EdgeViolation(name, severity, kind, f, d)
    PROVE  /\ v.rule = name /\ v.severity = severity /\ v.kind = kind /\ v.path = f.path
           /\ v.line = d.line /\ v.package = f.name /\ v.target = EffectivePath(d)
           /\ v.type = d.type /\ v.importPath = d.path
  BY DEF EdgeViolation

LEMMA WalkFields ==
    ASSUME NEW v, NEW r, NEW f, NEW q, NEW line, v = ReachableViolation(r, f, q, line)
    PROVE  /\ v.rule = r.name /\ v.severity = r.severity /\ v.kind = "reachable"
           /\ v.path = f.path /\ v.line = line /\ v.package = f.name /\ v.target = q
           /\ v.type = "local" /\ v.importPath = ""
  BY DEF ReachableViolation

(* Records with the fields of a violation are equal if their fields are. *)
LEMMA SameFields ==
    ASSUME NEW v \in Violation, NEW w \in Violation,
           v.rule = w.rule, v.severity = w.severity, v.kind = w.kind, v.path = w.path,
           v.line = w.line, v.package = w.package, v.target = w.target, v.type = w.type,
           v.importPath = w.importPath
    PROVE  v = w
<1> DEFINE names == {f.name : f \in FilesOf(files)} \cup {""}
<1>1. PICK strings, packages : strings = Strings /\ packages = names
  OBVIOUS
<1>2. Violation = [rule : strings, severity : strings, kind : strings, path : strings, line : Nat,
                   package : packages, target : strings, type : strings, importPath : strings]
  BY <1>1 DEF Violation
<1> HIDE DEF Violation
<1> QED
  BY <1>2

(* At the end everything found is in the result. *)
LEMMA AtEnd ==
    ASSUME Findings, phase = "done"
    PROVE  /\ All = Reported /\ Inv /\ Shape /\ WellScanned(files)
           /\ Reported \subseteq Violation
           /\ \A v : Copies(v) = Cardinality({i \in 1..Len(violations) : violations[i] = v})
           /\ \A v \in Reported : Cause(v)
           /\ \A j \in 1..Len(config.forbidden) : j \in Passed /\ Walked(j) = FileSites
           /\ AllowedPassed <=> FailClosed
<1>1. Inv /\ Shape /\ WellScanned(files) /\ DOMAIN found = {}
  BY DEF Findings, Shape, EmptyBag, SetToBag
<1>2. All = Reported
  BY <1>1 DEF All
<1>3. Reported \subseteq Violation
  <2>1. violations \in Seq(Violation)
    BY <1>1 DEF Shape
  <2> QED
    BY <2>1 DEF Reported
<1>4. ASSUME NEW v PROVE Copies(v) = Cardinality({i \in 1..Len(violations) : violations[i] = v})
  <2> DEFINE n == Len(violations)
             those == {i \in 1..n : violations[i] = v}
  <2>1. n \in Int /\ 1 \in Int
    <3>1. violations \in Seq(Violation)
      BY <1>1 DEF Shape
    <3> QED
      BY <3>1
  <2>2. Copies(v) = 0 + Cardinality(those)
    BY <1>1 DEF Copies
  <2> HIDE DEF n
  <2>3. IsFiniteSet(1..n)
    BY <2>1, FS_Interval
  <2>4. Cardinality(those) \in Nat
    BY <2>3, FS_Subset, FS_CardinalityType
  <2> HIDE DEF those, Copies
  <2>5. Copies(v) = Cardinality(those)
    BY <2>2, <2>4
  <2> QED
    BY <2>5 DEF those, n
<1>5. \A v \in Reported : Cause(v)
  BY <1>2 DEF Findings, Sound
<1>6. \A j \in 1..Len(config.forbidden) : j \in Passed /\ Walked(j) = FileSites
  BY DEF Passed, Walked
<1>7. AllowedPassed <=> FailClosed
  BY DEF AllowedPassed
<1> QED
  BY <1>1, <1>2, <1>3, <1>4, <1>5, <1>6, <1>7

(* The rule a violation names. *)
LEMMA RuleNamed ==
    ASSUME NEW j, NEW v, FromForbidden(j, v)
    PROVE  v.rule = config.forbidden[j].name /\ v.severity = config.forbidden[j].severity
<1>0. PICK r : r = config.forbidden[j]
  OBVIOUS
<1>1. CASE \E f, q, line : v = ReachableViolation(r, f, q, line)
  <2>1. PICK f, q, line : v = ReachableViolation(r, f, q, line)
    BY <1>1
  <2>2. v.rule = r.name /\ v.severity = r.severity
    BY <2>1 DEF ReachableViolation
  <2> QED
    BY <1>0, <2>2
<1>2. CASE \E p, q : v = FolderViolation(r, p, q)
  <2>1. PICK p, q : v = FolderViolation(r, p, q)
    BY <1>2
  <2>2. v.rule = r.name /\ v.severity = r.severity
    BY <2>1 DEF FolderViolation
  <2> QED
    BY <1>0, <2>2
<1>3. CASE \E kind, f : v = SourceViolation(r, kind, f)
  <2>1. PICK kind, f : v = SourceViolation(r, kind, f)
    BY <1>3
  <2>2. v.rule = r.name /\ v.severity = r.severity
    BY <2>1 DEF SourceViolation
  <2> QED
    BY <1>0, <2>2
<1>4. CASE \E s : v = EdgeOf(r, s)
  <2>1. PICK s : v = EdgeViolation(r.name, r.severity, "forbidden", files[s[1]], ImportAt(s))
    BY <1>4 DEF EdgeOf
  <2>2. v.rule = r.name /\ v.severity = r.severity
    BY <2>1 DEF EdgeViolation
  <2> QED
    BY <1>0, <2>2
<1> QED
  BY <1>0, <1>1, <1>2, <1>3, <1>4 DEF FromForbidden, Reaches, Makes

(* A violation that carries the name of a forbidden rule comes from it.     *)
LEMMA NamedBy ==
    ASSUME Findings, NEW j \in 1..Len(config.forbidden), NEW v, Cause(v),
           v.rule = config.forbidden[j].name
    PROVE  FromForbidden(j, v)
<1> DEFINE r == config.forbidden[j]
<1>1. r.name # Reserved
  BY RuleTypes DEF Findings
<1>2. ~FromAllowed(v)
  <2> SUFFICES ASSUME FromAllowed(v) PROVE FALSE
    OBVIOUS
  <2>1. PICK s : v = SlipOf(s)
    BY DEF FromAllowed
  <2>2. v.rule = Reserved
    BY <2>1, EdgeFields DEF SlipOf
  <2> QED
    BY <1>1, <2>2
<1>3. ~FromRequired(v)
  <2> SUFFICES ASSUME FromRequired(v) PROVE FALSE
    OBVIOUS
  <2>1. PICK k \in 1..Len(config.required) : \E f : v = SourceViolation(config.required[k], "required", f)
    BY DEF FromRequired
  <2>f. PICK f : v = SourceViolation(config.required[k], "required", f)
    BY <2>1
  <2>2. PICK required : required = config.required[k]
    OBVIOUS
  <2>3. v.rule = required.name
    BY <2>f, <2>2 DEF SourceViolation
  <2> QED
    BY <2>2, <2>3, Names DEF Findings
<1>4. PICK k \in 1..Len(config.forbidden) : FromForbidden(k, v)
  BY <1>2, <1>3 DEF Cause
<1>5. config.forbidden[k].name = config.forbidden[j].name
  BY <1>4, RuleNamed
<1>6. k = j
  BY <1>5, Names DEF Findings
<1> QED
  BY <1>4, <1>6

(* What an active rule of the forbidden list reports. *)
LEMMA RuleReports ==
    ASSUME Findings, phase = "done", NEW r \in ActiveForbidden
    PROVE  /\ \A v : v \in ReportedBy(r) <=>
                v \in Reported /\ v.rule = r.name
           /\ \A v \in ReportedBy(r) :
                \/ IsReachable(r) /\ \E k \in FileSites : Reaches(r, k, v)
                \/ Makes(r, v)
           /\ IsReachable(r) => \A k \in FileSites : OwesReached(r, k, Reported)
           /\ Owes(r, Reported)
           /\ r.scope \in {"module", "folder"}
           /\ \E j \in 1..Len(config.forbidden) : r = config.forbidden[j]
           /\ DOMAIN r.to = DOMAIN AnyTo
<1>1. PICK j \in 1..Len(config.forbidden) : r = config.forbidden[j] /\ Active(r)
  BY DEF ActiveForbidden
<1>2. /\ All = Reported /\ Inv /\ Shape
      /\ \A v \in Reported : Cause(v)
      /\ j \in Passed /\ Walked(j) = FileSites
  BY AtEnd
<1>3. ASSUME NEW v \in ReportedBy(r)
      PROVE  \/ IsReachable(r) /\ \E k \in FileSites : Reaches(r, k, v)
             \/ Makes(r, v)
  <2>1. FromForbidden(j, v)
    BY <1>1, <1>2, NamedBy DEF ReportedBy
  <2> QED
    BY <1>1, <1>2, <2>1 DEF FromForbidden
<1>4. (IsReachable(r) => \A k \in FileSites : OwesReached(r, k, Reported)) /\ Owes(r, Reported)
  BY <1>1, <1>2 DEF Findings, Complete, Covered
<1>5. r.scope \in {"module", "folder"}
  BY <1>1, <1>2, RuleTypes
<1>6. DOMAIN r.to = DOMAIN AnyTo
  <2> HIDE DEF AnyTo
  <2> QED
    BY <1>1, <1>2 DEF Shape, Listed
<1> QED
  BY <1>1, <1>3, <1>4, <1>5, <1>6 DEF ReportedBy

(* What each kind of rule reports: a reachable rule, file by file,          *)
LEMMA WalkReports ==
    ASSUME Findings, phase = "done", NEW r \in ActiveForbidden, IsReachable(r)
    PROVE  /\ \A v \in ReportedBy(r) : \E k \in FileSites : Reaches(r, k, v)
           /\ \A k \in FileSites, q \in Known(files) : WalkHit(r, files[k], q) =>
                \E v \in ReportedBy(r) : v = ReachableViolation(r, files[k], q, v.line)
<1>1. \A v : ~Makes(r, v)
  BY DEF Makes, IsReachable, IsUnreachable, IsModule
<1>2. ASSUME NEW k \in FileSites, NEW q \in Known(files), WalkHit(r, files[k], q)
      PROVE  \E v \in ReportedBy(r) : v = ReachableViolation(r, files[k], q, v.line)
  <2>1. PICK v \in Reported : v = ReachableViolation(r, files[k], q, v.line)
    BY <1>2, RuleReports DEF OwesReached
  <2>l. PICK line : v = ReachableViolation(r, files[k], q, line)
    BY <2>1
  <2>2. v.rule = r.name
    BY <2>l DEF ReachableViolation
  <2> QED
    BY <2>1, <2>2, RuleReports
<1> QED
  BY <1>1, <1>2, RuleReports

(* an unreachable rule,                                                     *)
LEMMA UnreachedReports ==
    ASSUME Findings, phase = "done", NEW r \in ActiveForbidden, IsUnreachable(r), NEW v
    PROVE  v \in ReportedBy(r) <=>
                \E k \in FileSites : UnreachedHit(r, k) /\ v = SourceViolation(r, "unreachable", files[k])
<1>1. ASSUME v \in ReportedBy(r)
      PROVE  \E k \in FileSites : UnreachedHit(r, k) /\ v = SourceViolation(r, "unreachable", files[k])
  BY <1>1, RuleReports DEF Makes, IsReachable, IsUnreachable, IsModule
<1>2. ASSUME NEW k \in FileSites, UnreachedHit(r, k), v = SourceViolation(r, "unreachable", files[k])
      PROVE  v \in ReportedBy(r)
  <2>1. v \in Reported
    BY <1>2, RuleReports DEF Owes
  <2>2. v.rule = r.name
    BY <1>2 DEF SourceViolation
  <2> QED
    BY <2>1, <2>2, RuleReports
<1> QED
  BY <1>1, <1>2

(* a rule at folder scope,                                                  *)
LEMMA FolderReports ==
    ASSUME Findings, phase = "done", NEW r \in ActiveForbidden, IsFolder(r), NEW v
    PROVE  v \in ReportedBy(r) <=>
                \E p, q \in Known(files) : FolderHit(r, p, q) /\ v = FolderViolation(r, p, q)
<1>1. ASSUME v \in ReportedBy(r)
      PROVE  \E p, q \in Known(files) : FolderHit(r, p, q) /\ v = FolderViolation(r, p, q)
  BY <1>1, RuleReports DEF Makes, IsReachable, IsUnreachable, IsModule
<1>2. ASSUME NEW p \in Known(files), NEW q \in Known(files), FolderHit(r, p, q),
             v = FolderViolation(r, p, q)
      PROVE  v \in ReportedBy(r)
  <2>1. v \in Reported
    BY <1>2, RuleReports DEF Owes
  <2>2. v.rule = r.name
    BY <1>2 DEF FolderViolation
  <2> QED
    BY <2>1, <2>2, RuleReports
<1> QED
  BY <1>1, <1>2

(* and a rule about imports.                                                *)
LEMMA EdgeReports ==
    ASSUME Findings, phase = "done", NEW r \in ActiveForbidden, IsModule(r), ~SourceOnly(r), NEW v
    PROVE  v \in ReportedBy(r) <=>
                \E s \in ImportSites : EdgeHit(r, s) /\ v = EdgeOf(r, s)
<1>1. ASSUME v \in ReportedBy(r)
      PROVE  \E s \in ImportSites : EdgeHit(r, s) /\ v = EdgeOf(r, s)
  <2>0. ~IsReachable(r)
    BY DEF IsReachable, IsModule
  <2>1. Makes(r, v)
    BY <1>1, <2>0, RuleReports
  <2>2. ~IsFolder(r) /\ ~IsUnreachable(r) /\ \A k : ~SourceHit(r, k)
    BY DEF IsUnreachable, IsModule, SourceHit
  <2> QED
    BY <2>1, <2>2 DEF Makes
<1>2. ASSUME NEW s \in ImportSites, EdgeHit(r, s), v = EdgeOf(r, s)
      PROVE  v \in ReportedBy(r)
  <2>1. v \in Reported
    BY <1>2, RuleReports DEF Owes
  <2>2. v.rule = r.name
    BY <1>2 DEF EdgeOf, EdgeViolation
  <2> QED
    BY <2>1, <2>2, RuleReports
<1> QED
  BY <1>1, <1>2

-----------------------------------------------------------------------------
(* The properties of the run. *)

(* What a path says of a package, for every violation but those of edges     *)
(* between folders.                                                          *)
LEMMA Packaged ==
    ASSUME Findings, phase = "done", NEW v \in Reported
    PROVE  \/ v.kind = "forbidden" /\ v.type = "local" /\ v.importPath = "" /\ v.package = ""
           \/ /\ ~(v.kind = "forbidden" /\ v.type = "local" /\ v.importPath = "")
              /\ \E k \in FileSites : v.path = files[k].path /\ v.package = files[k].name
<1>1. Cause(v) /\ WellScanned(files)
  BY AtEnd
<1>2. CASE \E p, q, r : v = FolderViolation(r, p, q)
  <2>1. PICK p, q, r : v = FolderViolation(r, p, q)
    BY <1>2
  <2> QED
    BY <2>1 DEF FolderViolation
<1>3. CASE \E r, kind : \E k \in FileSites : v = SourceViolation(r, kind, files[k])
  <2>1. PICK r, kind : \E k \in FileSites : v = SourceViolation(r, kind, files[k])
    BY <1>3
  <2>2. PICK k \in FileSites : v = SourceViolation(r, kind, files[k])
    BY <2>1
  <2>3. v.path = files[k].path /\ v.package = files[k].name /\ v.type = ""
    BY <2>2 DEF SourceViolation
  <2> QED
    BY <2>3
<1>4. CASE \E r, q, line : \E k \in FileSites : v = ReachableViolation(r, files[k], q, line)
  <2>1. PICK r, q, line : \E k \in FileSites : v = ReachableViolation(r, files[k], q, line)
    BY <1>4
  <2>2. PICK k \in FileSites : v = ReachableViolation(r, files[k], q, line)
    BY <2>1
  <2>3. v.path = files[k].path /\ v.package = files[k].name /\ v.kind = "reachable"
    BY <2>2 DEF ReachableViolation
  <2> QED
    BY <2>3
<1>5. CASE \E name, severity, kind : \E s \in ImportSites :
                v = EdgeViolation(name, severity, kind, files[s[1]], ImportAt(s))
  <2>1. PICK name, severity, kind : \E s \in ImportSites :
                v = EdgeViolation(name, severity, kind, files[s[1]], ImportAt(s))
    BY <1>5
  <2>2. PICK s \in ImportSites : v = EdgeViolation(name, severity, kind, files[s[1]], ImportAt(s))
    BY <2>1
  <2>3. s[1] \in FileSites /\ ImportAt(s).path # ""
    BY <1>1, Scanned DEF Import
  <2>4. v.path = files[s[1]].path /\ v.package = files[s[1]].name /\ v.importPath = ImportAt(s).path
    BY <2>2 DEF EdgeViolation
  <2> QED
    BY <2>3, <2>4
<1>6. ASSUME NEW j \in 1..Len(config.forbidden), FromForbidden(j, v)
      PROVE  \/ \E p, q, r : v = FolderViolation(r, p, q)
             \/ \E r, kind : \E k \in FileSites : v = SourceViolation(r, kind, files[k])
             \/ \E r, q, line : \E k \in FileSites : v = ReachableViolation(r, files[k], q, line)
             \/ \E name, severity, kind : \E s \in ImportSites :
                    v = EdgeViolation(name, severity, kind, files[s[1]], ImportAt(s))
  <2>1. Walked(j) = FileSites
    BY AtEnd
  <2> QED
    BY <1>6, <2>1 DEF FromForbidden, Reaches, Makes, EdgeOf
<1>7. FromAllowed(v) => \E name, severity, kind : \E s \in ImportSites :
                            v = EdgeViolation(name, severity, kind, files[s[1]], ImportAt(s))
  BY DEF FromAllowed, SlipOf
<1>8. FromRequired(v) => \E r, kind : \E k \in FileSites : v = SourceViolation(r, kind, files[k])
  BY DEF FromRequired
<1> QED
  BY <1>1, <1>2, <1>3, <1>4, <1>5, <1>6, <1>7, <1>8 DEF Cause

(* Keys that differ are ordered by the first component in which they do. *)
LEMMA KeysOrdered ==
    ASSUME NEW v \in Violation, NEW w \in Violation, Key(v) # Key(w)
    PROVE  Before(v, w) \/ Before(w, v)
<1> DEFINE a == Key(v)
           b == Key(w)
<1>1. /\ Len(a) = 8 /\ Len(b) = 8
      /\ \A n \in 1..8 : a[n] \in Nat /\ b[n] \in Nat
  <2>1. ASSUME NEW u \in Violation
        PROVE  Len(Key(u)) = 8 /\ \A n \in 1..8 : Key(u)[n] \in Nat
    <3>1. /\ {u.rule, u.severity, u.path, u.target, u.type, u.kind, u.importPath} \subseteq Strings
          /\ u.line \in Nat
      BY DEF Violation
    <3>2. \A s \in Strings : Rank[s] \in Nat
      BY RankAssumption
    <3>3. /\ Rank[u.rule] \in Nat /\ Rank[u.severity] \in Nat /\ Rank[u.path] \in Nat
          /\ Rank[u.target] \in Nat /\ Rank[u.type] \in Nat /\ Rank[u.kind] \in Nat
          /\ Rank[u.importPath] \in Nat
      BY <3>1, <3>2
    <3>4. Len(Key(u)) = 8
      BY DEF Key
    <3>5. /\ Key(u)[1] \in Nat /\ Key(u)[2] \in Nat /\ Key(u)[3] \in Nat /\ Key(u)[4] \in Nat
          /\ Key(u)[5] \in Nat /\ Key(u)[6] \in Nat /\ Key(u)[7] \in Nat /\ Key(u)[8] \in Nat
      BY <3>1, <3>3 DEF Key
    <3>6. \A n \in 1..8 : n = 1 \/ n = 2 \/ n = 3 \/ n = 4 \/ n = 5 \/ n = 6 \/ n = 7 \/ n = 8
      OBVIOUS
    <3> QED
      BY <3>4, <3>5, <3>6
  <2> QED
    BY <2>1
<1>2. \E n \in 1..8 : a[n] # b[n]
  BY DEF Key
<1> HIDE DEF a, b
<1>3. \E n \in 1..8 : a[n] # b[n] /\ \A m \in 1..(n - 1) : a[m] = b[m]
  <2> DEFINE same(n) == \A m \in 1..n : a[m] = b[m]
  <2>1. ASSUME \A n \in 1..8 : a[n] = b[n] \/ ~same(n - 1) PROVE FALSE
    <3>1. a[1] = b[1]
      BY <2>1
    <3>2. a[2] = b[2]
      BY <2>1, <3>1
    <3>3. a[3] = b[3]
      BY <2>1, <3>1, <3>2
    <3>4. a[4] = b[4]
      BY <2>1, <3>1, <3>2, <3>3
    <3>5. a[5] = b[5]
      BY <2>1, <3>1, <3>2, <3>3, <3>4
    <3>6. a[6] = b[6]
      BY <2>1, <3>1, <3>2, <3>3, <3>4, <3>5
    <3>7. a[7] = b[7]
      BY <2>1, <3>1, <3>2, <3>3, <3>4, <3>5, <3>6
    <3>8. a[8] = b[8]
      BY <2>1, <3>1, <3>2, <3>3, <3>4, <3>5, <3>6, <3>7
    <3> QED
      BY <1>2, <3>1, <3>2, <3>3, <3>4, <3>5, <3>6, <3>7, <3>8
  <2> QED
    BY <2>1
<1>4. PICK n \in 1..8 : a[n] # b[n] /\ \A m \in 1..(n - 1) : a[m] = b[m]
  BY <1>3
<1>5. a[n] < b[n] \/ b[n] < a[n]
  BY <1>1, <1>4
<1> QED
  BY <1>1, <1>4, <1>5 DEF Before, a, b

LEMMA OneOrderFollows == Findings => OneOrder
<1> SUFFICES ASSUME Findings, phase = "done", NEW v \in Reported, NEW w \in Reported,
                    Key(v) = Key(w)
             PROVE  v = w
  <2>1. Findings /\ phase = "done" => Reported \subseteq Violation
    BY AtEnd
  <2> QED
    BY <2>1, KeysOrdered DEF OneOrder
<1>1. v \in Violation /\ w \in Violation /\ WellScanned(files)
  BY AtEnd
<1>2. /\ Rank[v.rule] = Rank[w.rule] /\ Rank[v.severity] = Rank[w.severity]
      /\ Rank[v.path] = Rank[w.path] /\ v.line = w.line
      /\ Rank[v.target] = Rank[w.target] /\ Rank[v.type] = Rank[w.type]
      /\ Rank[v.kind] = Rank[w.kind] /\ Rank[v.importPath] = Rank[w.importPath]
  BY DEF Key
<1>3. \A s, t \in Strings : Rank[s] = Rank[t] => s = t
  BY RankAssumption
<1>4. \A u \in Violation : {u.rule, u.severity, u.path, u.target, u.type, u.kind, u.importPath} \subseteq Strings
  BY DEF Violation
<1>5. /\ v.rule = w.rule /\ v.severity = w.severity /\ v.path = w.path
      /\ v.target = w.target /\ v.type = w.type /\ v.kind = w.kind
      /\ v.importPath = w.importPath
  BY <1>1, <1>2, <1>3, <1>4
<1>6. v.package = w.package
  <2>1. \A k, l \in FileSites : files[k].path = files[l].path => k = l
    BY <1>1 DEF WellScanned, FileSites
  <2> QED
    BY <1>5, <2>1, Packaged
<1> QED
  BY <1>1, <1>2, <1>5, <1>6, SameFields

(* The order of the result does not depend on how the sort breaks ties.      *)
THEOREM OrderDetermined == Spec => []OneOrder
  BY FindingsCorrect, OneOrderFollows, PTL

LEMMA FilterNarrowsFollows == Findings => FilterNarrows
<1> SUFFICES ASSUME Findings, phase = "done", NEW wide \in ActiveForbidden,
                    NEW narrow \in ActiveForbidden, Narrower(wide, narrow)
             PROVE  /\ wide.to.reachable = {TRUE} =>
                        {<<v.path, v.target>> : v \in ReportedBy(narrow)}
                            \subseteq {<<v.path, v.target>> : v \in ReportedBy(wide)}
                    /\ wide.to.reachable = {FALSE} =>
                        {v.path : v \in ReportedBy(wide)} \subseteq {v.path : v \in ReportedBy(narrow)}
  BY DEF FilterNarrows
<1>1. /\ wide.from = narrow.from /\ wide.scope = "module" /\ narrow.scope = "module"
      /\ wide.to.fileNot \subseteq narrow.to.fileNot
  BY DEF Narrower
<1>2. /\ wide.to.reachable = narrow.to.reachable /\ wide.to.path = narrow.to.path
      /\ wide.to.pathNot = narrow.to.pathNot
  <2>1. {"reachable", "path", "pathNot"} \subseteq DOMAIN narrow.to
    BY RuleReports DEF AnyTo
  <2>2. wide.to = [narrow.to EXCEPT !.fileNot = wide.to.fileNot]
    BY DEF Narrower
  <2>3. PICK to, filter : to = narrow.to /\ filter = wide.to.fileNot
    OBVIOUS
  <2>4. wide.to = [to EXCEPT !.fileNot = filter] /\ {"reachable", "path", "pathNot"} \subseteq DOMAIN to
    BY <2>1, <2>2, <2>3
  <2>5. /\ wide.to.reachable = to.reachable /\ wide.to.path = to.path
        /\ wide.to.pathNot = to.pathNot
    BY <2>4
  <2> QED
    BY <2>3, <2>5
<1>3. \A from, more : from \subseteq more =>
        Reach(Edges(files, narrow.to.fileNot), from) \subseteq Reach(Edges(files, wide.to.fileNot), more)
  <2> SUFFICES ASSUME NEW from, NEW more, from \subseteq more
               PROVE  Reach(Edges(files, narrow.to.fileNot), from)
                        \subseteq Reach(Edges(files, wide.to.fileNot), more)
    OBVIOUS
  <2> DEFINE graph == Edges(files, narrow.to.fileNot)
             wider == Edges(files, wide.to.fileNot)
  <2>1. DOMAIN graph = DOMAIN wider /\ \A n \in DOMAIN graph : graph[n] \subseteq wider[n]
    BY <1>1 DEF Edges
  <2> HIDE DEF graph, wider
  <2>2. Reach(graph, from) \subseteq Reach(wider, more)
    BY <2>1, ReachMonotone
  <2> QED
    BY <2>2 DEF graph, wider
<1>4. \A value, captures : MatchesPackage(wide.to, value, captures) = MatchesPackage(narrow.to, value, captures)
  BY <1>2 DEF MatchesPackage
<1>5. ASSUME wide.to.reachable = {TRUE}, NEW w \in ReportedBy(narrow)
      PROVE  \E v \in ReportedBy(wide) : v.path = w.path /\ v.target = w.target
  <2>1. IsReachable(wide) /\ IsReachable(narrow)
    BY <1>1, <1>2, <1>5 DEF IsReachable, IsFolder
  <2>2. PICK k \in FileSites : Reaches(narrow, k, w)
    BY <1>5, <2>1, WalkReports
  <2>3. PICK q \in Known(files) : WalkHit(narrow, files[k], q) /\ w = ReachableViolation(narrow, files[k], q, w.line)
    BY <2>2 DEF Reaches
  <2>4. WalkHit(wide, files[k], q)
    <3>1. \A d : Leads(narrow, d, q) => Leads(wide, d, q)
      BY <1>3 DEF Leads
    <3> QED
      BY <1>1, <1>4, <2>3, <3>1 DEF WalkHit, Finds, Wanted
  <2>5. PICK v \in ReportedBy(wide) : v = ReachableViolation(wide, files[k], q, v.line)
    BY <2>1, <2>4, WalkReports
  <2>6. PICK m, n : v = ReachableViolation(wide, files[k], q, m) /\ w = ReachableViolation(narrow, files[k], q, n)
    BY <2>3, <2>5
  <2>7. v.path = w.path /\ v.target = w.target
    BY <2>6, ReachableFields
  <2> QED
    BY <2>7
<1>6. ASSUME wide.to.reachable = {FALSE}, NEW v \in ReportedBy(wide)
      PROVE  \E w \in ReportedBy(narrow) : w.path = v.path
  <2>1. IsUnreachable(wide) /\ IsUnreachable(narrow)
    BY <1>1, <1>2, <1>6 DEF IsUnreachable, IsFolder
  <2>2. PICK k \in FileSites : UnreachedHit(wide, k) /\ v = SourceViolation(wide, "unreachable", files[k])
    BY <1>6, <2>1, UnreachedReports
  <2>3. UnreachedHit(narrow, k)
    <3>1. Seeds(wide) = Seeds(narrow)
      BY <1>1 DEF Seeds
    <3> QED
      BY <1>3, <1>4, <2>2, <3>1 DEF UnreachedHit
  <2>4. PICK w : w = SourceViolation(narrow, "unreachable", files[k])
    OBVIOUS
  <2>5. w \in ReportedBy(narrow)
    BY <2>1, <2>3, <2>4, UnreachedReports
  <2>6. w.path = v.path
    BY <2>2, <2>4 DEF SourceViolation
  <2> QED
    BY <2>5, <2>6
<1>7. wide.to.reachable = {TRUE} =>
        {<<v.path, v.target>> : v \in ReportedBy(narrow)}
            \subseteq {<<v.path, v.target>> : v \in ReportedBy(wide)}
  <2> SUFFICES ASSUME wide.to.reachable = {TRUE}, NEW w \in ReportedBy(narrow)
               PROVE  \E v \in ReportedBy(wide) : <<w.path, w.target>> = <<v.path, v.target>>
    OBVIOUS
  <2> QED
    BY <1>5
<1>8. wide.to.reachable = {FALSE} =>
        {v.path : v \in ReportedBy(wide)} \subseteq {v.path : v \in ReportedBy(narrow)}
  <2> SUFFICES ASSUME wide.to.reachable = {FALSE}, NEW v \in ReportedBy(wide)
               PROVE  \E w \in ReportedBy(narrow) : v.path = w.path
    OBVIOUS
  <2> QED
    BY <1>6
<1> QED
  BY <1>7, <1>8

(* Excluding more files only narrows a reachable rule and only widens an     *)
(* unreachable one.                                                          *)
THEOREM FilterMonotone == Spec => []FilterNarrows
  BY FindingsCorrect, FilterNarrowsFollows, PTL

(* An import is allowed exactly if a rule meant for its file matches it.     *)
LEMMA AllowedServed ==
    ASSUME Inv, NEW allowed \in config.allowed, NEW f, NEW d,
           NEW i \in 1..Len(allowed), MatchesFile(files, allowed[i].from, f)
    PROVE  MatchesDependency(allowed[i].to, d, Captures(allowed[i].from, f.path)) \in {"yes", "no"}
<1>1. WellFormedRule(allowed[i]) /\ ValidTo(allowed[i].to, allowed[i].from, "allowed", allowed[i].scope)
  BY DEF Inv, Valid, ValidRule, WellFormed
<1>2. MatchesPath(allowed[i].from, f.path)
  BY DEF MatchesFile
<1>3. allowed[i].to.reachable = {}
  BY <1>1 DEF ValidTo
<1>4. ServedBy(allowed[i].to, Captures(allowed[i].from, f.path))
  BY <1>1, <1>2, <1>3, RuleServed
<1> QED
  BY <1>4, DependencyServed

(* A set of naturals has a least element. *)
LEMMA LeastOf ==
    ASSUME NEW S, S \subseteq Nat, S # {}
    PROVE  \E k \in S : \A m \in S : k <= m
<1> DEFINE R == OpToRel(<, Nat)
<1>1. IsWellFoundedOn(R, Nat)
  BY NatLessThanWellFounded
<1>2. \A x, y \in Nat : <<x, y>> \in R <=> x < y
  BY DEF OpToRel
<1> HIDE DEF R
<1>3. PICK k \in S : \A m \in S : ~(<<m, k>> \in R)
  BY <1>1, WFMin
<1>4. \A m \in S : k <= m
  <2> SUFFICES ASSUME NEW m \in S PROVE k <= m
    OBVIOUS
  <2>1. m \in Nat /\ k \in Nat /\ ~(m < k)
    BY <1>2, <1>3
  <2> QED
    BY <2>1
<1> QED
  BY <1>4

(* A loop over yes and no answers no only if all do.                        *)
LEMMA FirstYes ==
    ASSUME NEW n \in Nat, NEW verdicts, DOMAIN verdicts = 1..n,
           \A i \in 1..n : verdicts[i] \in {"yes", "no"}
    PROVE  FirstVerdict(verdicts) = "no" <=> ~\E i \in 1..n : verdicts[i] = "yes"
<1> DEFINE Reached(i) == \A j \in 1..(i - 1) : verdicts[j] = "no"
<1>1. ASSUME NEW i \in 1..n, verdicts[i] = "yes"
      PROVE  \E k \in 1..n : Reached(k) /\ verdicts[k] = "yes"
  <2> DEFINE hit(m) == m \in Nat /\ m \in 1..n /\ verdicts[m] = "yes"
  <2>1. \E k \in Nat : hit(k) /\ \A m \in 0..(k - 1) : ~hit(m)
    <3>1. PICK S : S = {m \in 1..n : verdicts[m] = "yes"}
      OBVIOUS
    <3>2. S # {} /\ S \subseteq Nat
      BY <1>1, <3>1
    <3>3. PICK k \in S : \A m \in S : k <= m
      BY <3>2, LeastOf
    <3>4. k \in Nat /\ hit(k)
      BY <3>1, <3>3
    <3>5. \A m \in 0..(k - 1) : ~hit(m)
      <4> SUFFICES ASSUME NEW m \in 0..(k - 1), hit(m) PROVE FALSE
        OBVIOUS
      <4>1. m \in S /\ m < k /\ m \in Nat
        BY <3>1, <3>4
      <4> QED
        BY <3>3, <3>4, <4>1
    <3> QED
      BY <3>4, <3>5
  <2>2. PICK k \in Nat : hit(k) /\ \A m \in 0..(k - 1) : ~hit(m)
    BY <2>1
  <2>3. Reached(k)
    BY <2>2
  <2> QED
    BY <2>2, <2>3
<1>2. FirstVerdict(verdicts) = "yes" <=> \E i \in 1..n : Reached(i) /\ verdicts[i] = "yes"
  BY DEF FirstVerdict
<1>3. FirstVerdict(verdicts) \in {"yes", "no"}
  BY DEF FirstVerdict
<1> QED
  BY <1>1, <1>2, <1>3

(* An import slips exactly if no rule meant for its file matches it.        *)
LEMMA SlipsUnmatched ==
    ASSUME Findings, NEW allowed \in config.allowed, NEW s \in ImportSites
    PROVE  Slips(s) <=> ~\E i \in 1..Len(allowed) :
                /\ MatchesFile(files, allowed[i].from, files[s[1]])
                /\ MatchesDependency(allowed[i].to, ImportAt(s),
                        Captures(allowed[i].from, files[s[1]].path)) = "yes"
<1> DEFINE matches(i) == MatchesFile(files, allowed[i].from, files[s[1]])
           verdict(i) == MatchesDependency(allowed[i].to, ImportAt(s),
                                           Captures(allowed[i].from, files[s[1]].path))
           verdicts == [i \in 1..Len(allowed) |-> IF ~matches(i) THEN "no" ELSE verdict(i)]
<1>1. Len(allowed) \in Nat
  BY ListLength DEF Findings, Shape, Listed
<1>2. \A i \in 1..Len(allowed) : matches(i) => verdict(i) \in {"yes", "no"}
  BY AllowedServed DEF Findings
<1>3. Slips(s) <=> AllowedVerdict(allowed, files[s[1]], ImportAt(s)) = "no"
  BY DEF Slips, Findings, Shape, Listed
<1>4. AllowedVerdict(allowed, files[s[1]], ImportAt(s)) = FirstVerdict(verdicts)
  BY DEF AllowedVerdict
<1> HIDE DEF matches, verdict
<1>5. FirstVerdict(verdicts) = "no" <=> ~\E i \in 1..Len(allowed) : verdicts[i] = "yes"
  <2>1. DOMAIN verdicts = 1..Len(allowed) /\ \A i \in 1..Len(allowed) : verdicts[i] \in {"yes", "no"}
    BY <1>2
  <2> HIDE DEF verdicts
  <2> QED
    BY <1>1, <2>1, FirstYes
<1>6. \A i \in 1..Len(allowed) : verdicts[i] = "yes" <=> matches(i) /\ verdict(i) = "yes"
  OBVIOUS
<1> HIDE DEF verdicts
<1>7. Slips(s) <=> ~\E i \in 1..Len(allowed) : matches(i) /\ verdict(i) = "yes"
  BY <1>3, <1>4, <1>5, <1>6
<1> QED
  BY <1>7 DEF matches, verdict

(* Imports that agree but for their line, and in that too. *)
LEMMA SameImport ==
    ASSUME NEW d \in Import, NEW e \in Import, d.line = e.line,
           [d EXCEPT !.line = 0] = [e EXCEPT !.line = 0]
    PROVE  d = e
<1>1. PICK strings, paths : strings = Strings /\ paths = Strings \ {""}
  OBVIOUS
<1>2. Import = [path : paths, resolved : strings, type : strings, line : Nat]
  BY <1>1 DEF Import
<1>3. PICK a, b : a = [d EXCEPT !.line = 0] /\ b = [e EXCEPT !.line = 0] /\ a = b
  OBVIOUS
<1>4. a.path = d.path /\ a.resolved = d.resolved /\ a.type = d.type
  BY <1>2, <1>3
<1>5. b.path = e.path /\ b.resolved = e.resolved /\ b.type = e.type
  BY <1>2, <1>3
<1>6. d.path = e.path /\ d.resolved = e.resolved /\ d.type = e.type
  BY <1>3, <1>4, <1>5
<1> QED
  BY <1>2, <1>6

(* One path is resolved in one way. *)
LEMMA OneResolution ==
    ASSUME WellScanned(files), NEW s \in ImportSites, NEW t \in ImportSites,
           ImportAt(s).path = ImportAt(t).path
    PROVE  [ImportAt(s) EXCEPT !.line = 0] = [ImportAt(t) EXCEPT !.line = 0]
<1>1. PICK f \in FilesOf(files), g \in FilesOf(files) : f = files[s[1]] /\ g = files[t[1]]
  BY Scanned
<1>2. PICK i \in 1..Len(f.imports), j \in 1..Len(g.imports) : i = s[2] /\ j = t[2]
  BY <1>1, Scanned
<1>3. ImportAt(s) = f.imports[i] /\ ImportAt(t) = g.imports[j]
  BY <1>1, <1>2 DEF ImportAt
<1>4. f.imports[i].path = g.imports[j].path =>
        [f.imports[i] EXCEPT !.line = 0] = [g.imports[j] EXCEPT !.line = 0]
  <2> DEFINE alike(h, k, m, n) ==
        h.imports[m].path = k.imports[n].path =>
            [h.imports[m] EXCEPT !.line = 0] = [k.imports[n] EXCEPT !.line = 0]
  <2>1. \A h, k \in FilesOf(files) : \A m \in 1..Len(h.imports), n \in 1..Len(k.imports) :
            alike(h, k, m, n)
    BY DEF WellScanned
  <2> HIDE DEF alike
  <2>2. alike(f, g, i, j)
    BY <2>1
  <2> QED
    BY <2>2 DEF alike
<1>5. PICK d, e : d = f.imports[i] /\ e = g.imports[j]
  OBVIOUS
<1> QED
  BY <1>3, <1>4, <1>5

(* Imports reported alike are repetitions of one import. *)
LEMMA SameSlip ==
    ASSUME Findings, NEW s \in ImportSites, NEW t \in ImportSites
    PROVE  SlipOf(s) = SlipOf(t) <=> s[1] = t[1] /\ ImportAt(s) = ImportAt(t)
<1>1. WellScanned(files)
  BY DEF Findings, Shape
<1>2. /\ s[1] \in FileSites /\ t[1] \in FileSites /\ ImportAt(s) \in Import /\ ImportAt(t) \in Import
      /\ files[s[1]] \in FilesOf(files) /\ files[t[1]] \in FilesOf(files)
      /\ s[2] \in 1..Len(files[s[1]].imports) /\ t[2] \in 1..Len(files[t[1]].imports)
  BY <1>1, Scanned
<1>3. ASSUME SlipOf(s) = SlipOf(t) PROVE s[1] = t[1] /\ ImportAt(s) = ImportAt(t)
  <2>1. PICK v : v = SlipOf(s) /\ v = SlipOf(t)
    BY <1>3
  <2>2. v.path = files[s[1]].path /\ v.line = ImportAt(s).line /\ v.importPath = ImportAt(s).path
    BY <2>1 DEF SlipOf, EdgeViolation
  <2>3. v.path = files[t[1]].path /\ v.line = ImportAt(t).line /\ v.importPath = ImportAt(t).path
    BY <2>1 DEF SlipOf, EdgeViolation
  <2>4. s[1] = t[1]
    BY <1>1, <1>2, <2>2, <2>3 DEF WellScanned, FileSites
  <2>5. [ImportAt(s) EXCEPT !.line = 0] = [ImportAt(t) EXCEPT !.line = 0]
    BY <1>1, <2>2, <2>3, OneResolution
  <2>6. ImportAt(s) = ImportAt(t)
    BY <1>2, <2>2, <2>3, <2>5, SameImport
  <2> QED
    BY <2>4, <2>6
<1>4. ASSUME s[1] = t[1], ImportAt(s) = ImportAt(t) PROVE SlipOf(s) = SlipOf(t)
  BY <1>4 DEF SlipOf
<1> QED
  BY <1>3, <1>4

LEMMA NothingSlipsFollows == Findings => NothingSlips
<1> SUFFICES ASSUME Findings, phase = "done", FailClosed, NEW allowed \in config.allowed,
                    NEW s \in ImportSites
             PROVE  LET unmatched == {u \in ImportSites :
                            ~\E i \in 1..Len(allowed) :
                                /\ MatchesFile(files, allowed[i].from, files[u[1]])
                                /\ MatchesDependency(allowed[i].to, ImportAt(u),
                                        Captures(allowed[i].from, files[u[1]].path)) = "yes"}
                        hits == {i \in 1..Len(violations) :
                            /\ violations[i].rule = Reserved
                            /\ violations[i].path = files[s[1]].path
                            /\ violations[i].line = ImportAt(s).line
                            /\ violations[i].importPath = ImportAt(s).path}
                        twins == {t \in ImportSites : t[1] = s[1] /\ ImportAt(t) = ImportAt(s)}
                    IN  Cardinality(hits) = IF s \in unmatched THEN Cardinality(twins) ELSE 0
  BY DEF NothingSlips
<1> DEFINE hits == {i \in 1..Len(violations) :
                        /\ violations[i].rule = Reserved
                        /\ violations[i].path = files[s[1]].path
                        /\ violations[i].line = ImportAt(s).line
                        /\ violations[i].importPath = ImportAt(s).path}
           twins == {t \in ImportSites : t[1] = s[1] /\ ImportAt(t) = ImportAt(s)}
           copies == {i \in 1..Len(violations) : violations[i] = SlipOf(s)}
<1>1. /\ All = Reported /\ WellScanned(files) /\ AllowedPassed
      /\ Copies(SlipOf(s)) = Cardinality(copies)
      /\ \A v \in Reported : Cause(v)
  BY AtEnd
<1>2. ASSUME NEW i \in hits PROVE \E t \in ImportSites : Slips(t) /\ violations[i] = SlipOf(t)
  <2>1. PICK v : v = violations[i] /\ v \in Reported /\ v.rule = Reserved
    BY DEF Reported
  <2>2. ~\E j \in 1..Len(config.forbidden) : FromForbidden(j, v)
    BY <2>1, RuleNamed, RuleTypes DEF Findings
  <2>3. ~FromRequired(v)
    <3> SUFFICES ASSUME FromRequired(v) PROVE FALSE
      OBVIOUS
    <3>1. PICK k \in 1..Len(config.required) : \E f : v = SourceViolation(config.required[k], "required", f)
      BY DEF FromRequired
    <3>f. PICK f : v = SourceViolation(config.required[k], "required", f)
      BY <3>1
    <3>2. PICK r : r = config.required[k]
      OBVIOUS
    <3>3. v.rule = r.name
      BY <3>f, <3>2 DEF SourceViolation
    <3> QED
      BY <2>1, <3>2, <3>3, RuleTypes DEF Findings
  <2>4. FromAllowed(v)
    BY <1>1, <2>1, <2>2, <2>3 DEF Cause
  <2> QED
    BY <2>1, <2>4 DEF FromAllowed
<1>3. ASSUME NEW i \in hits PROVE violations[i] = SlipOf(s) /\ Slips(s)
  <2>1. PICK t \in ImportSites : Slips(t) /\ violations[i] = SlipOf(t)
    BY <1>2
  <2>2. PICK v : v = violations[i] /\ v = SlipOf(t)
    BY <2>1
  <2>3. v.path = files[t[1]].path /\ v.line = ImportAt(t).line /\ v.importPath = ImportAt(t).path
    BY <2>2 DEF SlipOf, EdgeViolation
  <2>4. /\ files[t[1]].path = files[s[1]].path /\ ImportAt(t).line = ImportAt(s).line
        /\ ImportAt(t).path = ImportAt(s).path
    BY <2>2, <2>3
  <2>5. /\ s[1] \in FileSites /\ t[1] \in FileSites /\ ImportAt(s) \in Import /\ ImportAt(t) \in Import
        /\ files[s[1]] \in FilesOf(files) /\ files[t[1]] \in FilesOf(files)
        /\ s[2] \in 1..Len(files[s[1]].imports) /\ t[2] \in 1..Len(files[t[1]].imports)
    BY <1>1, Scanned
  <2>6. s[1] = t[1]
    BY <1>1, <2>4, <2>5 DEF WellScanned, FileSites
  <2>7. [ImportAt(s) EXCEPT !.line = 0] = [ImportAt(t) EXCEPT !.line = 0]
    BY <1>1, <2>4, OneResolution
  <2>8. ImportAt(s) = ImportAt(t)
    BY <2>4, <2>5, <2>7, SameImport
  <2>9. SlipOf(t) = SlipOf(s)
    BY <2>6, <2>8, SameSlip
  <2>10. Slips(s)
    BY <2>1, <2>6, <2>8 DEF Slips
  <2> QED
    BY <2>1, <2>9, <2>10
<1>4. copies \subseteq hits
  <2> SUFFICES ASSUME NEW i \in copies PROVE i \in hits
    OBVIOUS
  <2>1. PICK v : v = violations[i] /\ v = SlipOf(s)
    OBVIOUS
  <2>2. /\ v.rule = Reserved /\ v.path = files[s[1]].path /\ v.line = ImportAt(s).line
        /\ v.importPath = ImportAt(s).path
    BY <2>1 DEF SlipOf, EdgeViolation
  <2> QED
    BY <2>1, <2>2
<1>5. hits = copies
  BY <1>3, <1>4
<1> HIDE DEF hits, copies
<1>6. CASE Slips(s)
  <2>1. SlipOf(s) \in All
    BY <1>1, <1>6 DEF Findings, Complete
  <2>2. PICK v : v = SlipOf(s)
    OBVIOUS
  <2>3. v.kind = "not-in-allowed"
    BY <2>2 DEF SlipOf, EdgeViolation
  <2>4. Copies(v) = Cardinality({t \in ImportSites : Slips(t) /\ SlipOf(t) = v})
    BY <2>1, <2>2, <2>3 DEF Findings, Counted, CountedOnce
  <2>5. {t \in ImportSites : Slips(t) /\ SlipOf(t) = v} = twins
    <3>1. \A t \in ImportSites : t[1] = s[1] /\ ImportAt(t) = ImportAt(s) => Slips(t)
      BY <1>6 DEF Slips
    <3>2. \A t \in ImportSites : SlipOf(t) = v <=> t[1] = s[1] /\ ImportAt(t) = ImportAt(s)
      BY <2>2, SameSlip
    <3> QED
      BY <3>1, <3>2
  <2> HIDE DEF twins
  <2>6. Cardinality(hits) = Cardinality(twins)
    BY <1>1, <1>5, <2>2, <2>4, <2>5
  <2> QED
    BY <1>6, <2>6, SlipsUnmatched DEF hits, twins
<1>7. CASE ~Slips(s)
  <2>1. hits = {}
    BY <1>3, <1>7
  <2>2. Cardinality(hits) = 0
    BY <2>1, FS_EmptySet
  <2> QED
    BY <1>7, <2>2, SlipsUnmatched DEF hits
<1> QED
  BY <1>6, <1>7

(* With an allowed list every import is matched or reported, once for each   *)
(* time it occurs.                                                           *)
THEOREM FailsClosed == Spec => []NothingSlips
  BY FindingsCorrect, NothingSlipsFollows, PTL

(* A local import resolves to a package of the graph. *)
LEMMA ResolvedKnown ==
    ASSUME NEW f \in FilesOf(files), NEW i \in 1..Len(f.imports),
           f.imports[i].type = "local", f.imports[i].resolved # ""
    PROVE  f.imports[i].resolved \in LocalTargets(f) /\ f.imports[i].resolved \in Known(files)
<1>1. f.imports[i].resolved \in LocalTargets(f)
  BY DEF LocalTargets
<1> QED
  BY <1>1 DEF Known, Imported

LEMMA LowestLineFollows == Findings => LowestLine
<1> SUFFICES ASSUME Findings, phase = "done",
                    NEW r \in {s \in ActiveForbidden : s.scope = "module" /\ s.to.reachable = {TRUE}},
                    NEW f \in {g \in FilesOf(files) : MatchesFile(files, r.from, g)},
                    NEW q \in Known(files)
             PROVE  LET leads(d) == /\ d.type = "local" /\ d.resolved # ""
                                    /\ q \in Reach(Edges(files, r.to.fileNot), {d.resolved})
                        lines == {f.imports[i].line : i \in {j \in 1..Len(f.imports) :
                                    leads(f.imports[j])}}
                        hits == {i \in 1..Len(violations) :
                                    /\ violations[i].rule = r.name
                                    /\ violations[i].path = f.path
                                    /\ violations[i].target = q}
                    IN  IF lines # {} /\ MatchesPackage(r.to, q, Captures(r.from, f.path)) = "yes"
                        THEN /\ Cardinality(hits) = 1
                             /\ \A i \in hits :
                                /\ violations[i].line \in lines
                                /\ \A n \in lines : violations[i].line <= n
                        ELSE hits = {}
  BY DEF LowestLine
<1> DEFINE leads(d) == /\ d.type = "local" /\ d.resolved # ""
                       /\ q \in Reach(Edges(files, r.to.fileNot), {d.resolved})
           lines == {f.imports[i].line : i \in {j \in 1..Len(f.imports) : leads(f.imports[j])}}
           hits == {i \in 1..Len(violations) :
                        /\ violations[i].rule = r.name
                        /\ violations[i].path = f.path
                        /\ violations[i].target = q}
           size == Len(f.imports)
<1>1. /\ All = Reported /\ WellScanned(files)
      /\ \A v : Copies(v) = Cardinality({i \in 1..Len(violations) : violations[i] = v})
  BY AtEnd
<1>2. r \in ActiveForbidden /\ IsReachable(r) /\ MatchesFile(files, r.from, f) /\ f \in FilesOf(files)
  BY DEF IsReachable, IsFolder
<1>3. PICK k \in FileSites : f = files[k]
  BY <1>1, <1>2, Scanned
<1>4. \A i \in 1..size : leads(f.imports[i]) <=> Leads(r, f.imports[i], q)
  <2> SUFFICES ASSUME NEW i \in 1..size, f.imports[i].type = "local", f.imports[i].resolved # ""
               PROVE  {f.imports[i].resolved} \cap Known(files) = {f.imports[i].resolved}
    BY DEF Leads
  <2> QED
    BY <1>2, ResolvedKnown
<1> HIDE DEF leads
<1>5. \A n : n \in lines <=> \E i \in 1..size : Leads(r, f.imports[i], q) /\ n = f.imports[i].line
  BY <1>4
<1> HIDE DEF lines
<1>6. WalkHit(r, f, q) <=> lines # {} /\ Wanted(r, f, q)
  <2>1. lines # {} <=> \E i \in 1..size : Leads(r, f.imports[i], q)
    BY <1>5
  <2> QED
    BY <1>2, <2>1 DEF WalkHit, Finds
<1>7. \A line : First(r, f, size, q, line) <=> line \in lines /\ \A n \in lines : line <= n
  BY <1>5 DEF First
<1>8. lines \subseteq Nat
  <2>1. \A i \in 1..size : f.imports[i].line \in Nat
    BY <1>1, <1>2, Scanned DEF Import
  <2> QED
    BY <1>5, <2>1
<1>9. ASSUME NEW i \in hits
      PROVE  /\ WalkHit(r, f, q) /\ First(r, f, size, q, violations[i].line)
             /\ violations[i] = ReachableViolation(r, f, q, violations[i].line)
  <2>1. PICK v : v = violations[i]
    OBVIOUS
  <2>2. v \in ReportedBy(r) /\ v.path = f.path /\ v.target = q
    BY <2>1 DEF ReportedBy, Reported
  <2>3. PICK l \in FileSites : Reaches(r, l, v)
    BY <1>2, <2>2, WalkReports
  <2>4. PICK p \in Known(files) :
            /\ WalkHit(r, files[l], p) /\ First(r, files[l], Len(files[l].imports), p, v.line)
            /\ v = ReachableViolation(r, files[l], p, v.line)
    BY <2>3 DEF Reaches
  <2>5. PICK line : line = v.line /\ v = ReachableViolation(r, files[l], p, line)
    BY <2>4
  <2>6. v.path = files[l].path /\ v.target = p
    BY <2>5, ReachableFields
  <2>7. l = k /\ p = q
    BY <1>1, <1>3, <2>2, <2>6 DEF WellScanned, FileSites
  <2> QED
    BY <1>3, <2>1, <2>4, <2>7
<1>10. CASE WalkHit(r, f, q)
  <2>1. PICK v \in ReportedBy(r) : v = ReachableViolation(r, files[k], q, v.line)
    BY <1>2, <1>3, <1>10, WalkReports
  <2>2. PICK line : line = v.line /\ v = ReachableViolation(r, f, q, line)
    BY <1>3, <2>1
  <2>3. v.rule = r.name /\ v.path = f.path /\ v.target = q /\ v.kind = "reachable"
    BY <2>2, ReachableFields
  <2>4. v \in Reported
    BY DEF ReportedBy
  <2>5. Cardinality({i \in 1..Len(violations) : violations[i] = v}) = 1
    BY <1>1, <2>3, <2>4 DEF Findings, Counted, CountedOnce
  <2>6. {i \in 1..Len(violations) : violations[i] = v} = hits
    <3>1. \A i \in 1..Len(violations) : violations[i] = v => i \in hits
      BY <2>3
    <3>2. PICK j \in 1..Len(violations) : violations[j] = v
      BY <2>4 DEF Reported
    <3>3. First(r, f, size, q, line)
      BY <1>9, <2>2, <3>1, <3>2
    <3>4. ASSUME NEW i \in hits PROVE violations[i] = v
      <4>1. PICK m : m = violations[i].line
        OBVIOUS
      <4>2. First(r, f, size, q, m) /\ violations[i] = ReachableViolation(r, f, q, m)
        BY <1>9, <4>1
      <4>3. m \in lines /\ line \in lines /\ m <= line /\ line <= m
        BY <1>7, <3>3, <4>2
      <4>4. m \in Nat /\ line \in Nat
        BY <1>8, <4>3
      <4>5. \A a, b \in Nat : a <= b /\ b <= a => a = b
        OBVIOUS
      <4>6. m = line
        BY <4>3, <4>4, <4>5, Zenon
      <4> QED
        BY <2>2, <4>2, <4>6
    <3>5. \A i \in hits : i \in 1..Len(violations)
      OBVIOUS
    <3> HIDE DEF hits
    <3> QED
      BY <3>1, <3>4, <3>5
  <2>7. Cardinality(hits) = 1
    BY <2>5, <2>6
  <2>8. \A i \in hits : violations[i].line \in lines /\ \A n \in lines : violations[i].line <= n
    BY <1>7, <1>9
  <2> QED
    BY <1>6, <1>10, <2>7, <2>8 DEF Wanted, hits, lines, leads
<1>11. CASE ~WalkHit(r, f, q)
  <2>1. hits = {}
    BY <1>9, <1>11
  <2> QED
    BY <1>6, <1>11, <2>1 DEF Wanted, hits, lines, leads
<1> QED
  BY <1>10, <1>11

(* A reachable rule reports a file and a package once, at the first import   *)
(* that leads there.                                                         *)
THEOREM FirstLine == Spec => []LowestLine
  BY FindingsCorrect, LowestLineFollows, PTL

-----------------------------------------------------------------------------
(* Opposite rules. *)

(* The validator has accepted each active rule.                             *)
LEMMA RuleValid ==
    ASSUME Inv, NEW r \in ActiveForbidden
    PROVE  WellFormedRule(r) /\ ValidTo(r.to, r.from, "forbidden", r.scope)
<1>1. PICK j \in 1..Len(config.forbidden) : r = config.forbidden[j]
  BY DEF ActiveForbidden
<1> QED
  BY <1>1 DEF Inv, Valid, ValidRule, WellFormed

(* The edges stay among the packages of the graph. *)
LEMMA EdgeGraph ==
    ASSUME NEW excluded
    PROVE  /\ DOMAIN Edges(files, excluded) = Known(files)
           /\ \A p \in Known(files) : Edges(files, excluded)[p] \subseteq Known(files)
  BY DEF Edges

(* Templates without references do not depend on what was captured. *)
LEMMA PlainTemplates ==
    ASSUME NEW to, NEW other, NEW captures, NEW value,
           other.path = to.path, other.pathNot = to.pathNot, Len(captures) \in Nat,
           \A i \in 1..Len(to.path) : to.path[i].ref = 0,
           \A i \in 1..Len(to.pathNot) : to.pathNot[i].ref = 0
    PROVE  MatchesPackage(other, value, captures) = MatchesPackage(to, value, <<>>)
<1>1. ASSUME NEW t, t.ref = 0
      PROVE  TemplateVerdict(t, value, captures) = TemplateVerdict(t, value, <<>>)
  BY <1>1 DEF TemplateVerdict
<1>2. AnyTemplate(to.path, value, captures) = AnyTemplate(to.path, value, <<>>)
  <2>1. [i \in 1..Len(to.path) |-> TemplateVerdict(to.path[i], value, captures)]
            = [i \in 1..Len(to.path) |-> TemplateVerdict(to.path[i], value, <<>>)]
    BY <1>1
  <2> QED
    BY <2>1 DEF AnyTemplate
<1>3. AnyTemplate(to.pathNot, value, captures) = AnyTemplate(to.pathNot, value, <<>>)
  <2>1. [i \in 1..Len(to.pathNot) |-> TemplateVerdict(to.pathNot[i], value, captures)]
            = [i \in 1..Len(to.pathNot) |-> TemplateVerdict(to.pathNot[i], value, <<>>)]
    BY <1>1
  <2> QED
    BY <2>1 DEF AnyTemplate
<1> QED
  BY <1>2, <1>3 DEF MatchesPackage

(* Opposite rules select alike and match alike.                             *)
LEMMA OppositeFields ==
    ASSUME Findings, phase = "done", NEW r \in ActiveForbidden, NEW u \in ActiveForbidden,
           Opposite(r, u)
    PROVE  /\ IsReachable(r) /\ IsUnreachable(u) /\ r.from = u.from
           /\ r.to.path = u.to.path /\ r.to.pathNot = u.to.pathNot
           /\ r.to.fileNot = {} /\ u.to.fileNot = {}
           /\ \A f, q : MatchesFile(files, r.from, f) =>
                (Wanted(r, f, q) <=> MatchesPackage(u.to, q, <<>>) = "yes")
<1>1. r.from = u.from /\ r.to.fileNot = {} /\ r.to = [u.to EXCEPT !.reachable = {TRUE}]
  BY DEF Opposite
<1>2. {"reachable", "path", "pathNot", "fileNot"} \subseteq DOMAIN u.to
  BY RuleReports DEF AnyTo
<1>3. r.to.path = u.to.path /\ r.to.pathNot = u.to.pathNot /\ u.to.fileNot = {}
  <2>1. PICK to, other : to = u.to /\ other = r.to
    OBVIOUS
  <2>2. other = [to EXCEPT !.reachable = {TRUE}] /\ {"reachable", "path", "pathNot", "fileNot"} \subseteq DOMAIN to
    BY <1>1, <1>2, <2>1
  <2>3. other.path = to.path /\ other.pathNot = to.pathNot /\ other.fileNot = to.fileNot
    BY <2>2
  <2> QED
    BY <1>1, <2>1, <2>3
<1>4. IsReachable(r) /\ IsUnreachable(u)
  BY DEF Opposite, IsReachable, IsUnreachable, IsFolder
<1>5. Inv
  BY DEF Findings
<1>6. /\ \A i \in 1..Len(u.to.path) : u.to.path[i].ref = 0
      /\ \A i \in 1..Len(u.to.pathNot) : u.to.pathNot[i].ref = 0
  <2>1. FALSE \in u.to.reachable
    BY DEF Opposite
  <2>2. ASSUME NEW t, t.ref \in Nat, ValidTemplate(t, u.from, FALSE) PROVE t.ref = 0
    BY <2>2 DEF ValidTemplate
  <2>3. WellFormedRule(u) /\ ValidTo(u.to, u.from, "forbidden", u.scope)
    BY <1>5, RuleValid
  <2> QED
    BY <2>1, <2>2, <2>3 DEF WellFormedRule, ValidTo
<1>7. ASSUME NEW f, NEW q, MatchesFile(files, r.from, f)
      PROVE  Wanted(r, f, q) <=> MatchesPackage(u.to, q, <<>>) = "yes"
  <2> DEFINE captures == Captures(r.from, f.path)
  <2>1. WellFormedRule(r) /\ ValidTo(r.to, r.from, "forbidden", r.scope)
    BY <1>5, RuleValid
  <2>2. FALSE \notin r.to.reachable /\ r.to.reachable # {}
    BY DEF Opposite
  <2>3. ServedBy(r.to, captures)
    BY <1>7, <2>1, <2>2, RuleServed DEF MatchesFile
  <2>4. Len(r.to.path) > 0 /\ Len(r.to.path) \in Nat
    BY <2>1, <2>2 DEF ValidTo
  <2>5. Len(captures) \in Nat
    BY <2>3, <2>4 DEF ServedBy, Served
  <2> HIDE DEF captures
  <2>6. MatchesPackage(r.to, q, captures) = MatchesPackage(u.to, q, <<>>)
    BY <1>3, <1>6, <2>5, PlainTemplates
  <2> QED
    BY <2>6 DEF Wanted, captures
<1> QED
  BY <1>1, <1>3, <1>4, <1>7


LEMMA SplitFollows == Findings => Split
<1> SUFFICES ASSUME Findings, phase = "done", NEW r \in ActiveForbidden, NEW u \in ActiveForbidden,
                    Opposite(r, u),
                    NEW f \in FilesOf(files), MatchesPackage(u.to, f.pkg, <<>>) = "yes"
             PROVE  LET unreached == \E v \in ReportedBy(u) : v.path = f.path
                        entry == \E g \in FilesOf(files) :
                                    g.pkg = f.pkg /\ MatchesFile(files, u.from, g)
                        reached == \E v \in ReportedBy(r) : v.target = f.pkg
                    IN  /\ unreached => ~entry /\ ~reached
                        /\ Whole(u.from) => unreached \/ entry \/ reached
  BY DEF Split
<1> DEFINE graph == Edges(files, {})
           unreached == \E v \in ReportedBy(u) : v.path = f.path
           reached == \E v \in ReportedBy(r) : v.target = f.pkg
           Entry(k) == MatchesFile(files, u.from, files[k])
           Led(q) == \E k \in FileSites : Entry(k)
                        /\ \E i \in 1..Len(files[k].imports) : Leads(r, files[k].imports[i], q)
           closure == Reach(graph, Seeds(u))
           Joins(l, i, p, q) ==
                /\ files[l].pkg = p
                /\ files[l].imports[i].type = "local" /\ files[l].imports[i].resolved # ""
                /\ files[l].imports[i].resolved = q
<1>1. /\ WellScanned(files)
      /\ IsReachable(r) /\ IsUnreachable(u) /\ r.from = u.from
      /\ r.to.fileNot = {} /\ u.to.fileNot = {}
      /\ \A g, q : MatchesFile(files, r.from, g) =>
            (Wanted(r, g, q) <=> MatchesPackage(u.to, q, <<>>) = "yes")
  BY AtEnd, OppositeFields
<1>2. PICK k \in FileSites : f = files[k]
  BY <1>1, Scanned
<1>3. f.pkg \in Known(files) /\ Seeds(u) \subseteq Known(files)
  BY DEF Known, Seeds
<1>4. DOMAIN graph = Known(files) /\ \A p \in Known(files) : graph[p] \subseteq Known(files)
  BY EdgeGraph
<1>5. unreached <=> f.pkg \notin closure
  <2>1. UnreachedHit(u, k) <=> f.pkg \notin closure
    <3>1. Seeds(u) \cap Known(files) = Seeds(u)
      BY <1>3
    <3> QED
      BY <1>1, <1>2, <3>1 DEF UnreachedHit
  <2>2. ASSUME UnreachedHit(u, k) PROVE unreached
    <3>1. PICK v : v = SourceViolation(u, "unreachable", files[k])
      OBVIOUS
    <3>2. v \in ReportedBy(u)
      BY <1>1, <2>2, <3>1, UnreachedReports
    <3>3. v.path = files[k].path
      BY <3>1 DEF SourceViolation
    <3> QED
      BY <1>2, <3>2, <3>3
  <2>3. ASSUME unreached PROVE UnreachedHit(u, k)
    <3>1. PICK v \in ReportedBy(u) : v.path = f.path
      BY <2>3
    <3>2. PICK l \in FileSites : UnreachedHit(u, l) /\ v = SourceViolation(u, "unreachable", files[l])
      BY <1>1, <3>1, UnreachedReports
    <3>5. v.path = files[l].path
      BY <3>2 DEF SourceViolation
    <3>3. files[l].path = files[k].path
      BY <1>2, <3>1, <3>5
    <3>4. l = k
      BY <1>1, <3>3 DEF WellScanned, FileSites
    <3> QED
      BY <3>2, <3>4
  <2> QED
    BY <2>1, <2>2, <2>3
<1>6. reached <=> Led(f.pkg)
  <2>1. ASSUME NEW l \in FileSites
        PROVE  WalkHit(r, files[l], f.pkg) <=>
                    Entry(l) /\ \E i \in 1..Len(files[l].imports) : Leads(r, files[l].imports[i], f.pkg)
    BY <1>1 DEF WalkHit, Finds
  <2>2. ASSUME NEW l \in FileSites, WalkHit(r, files[l], f.pkg) PROVE reached
    <3>1. PICK v \in ReportedBy(r) : v = ReachableViolation(r, files[l], f.pkg, v.line)
      BY <1>1, <1>3, <2>2, WalkReports
    <3>2. PICK line : v = ReachableViolation(r, files[l], f.pkg, line)
      BY <3>1
    <3> QED
      BY <3>1, <3>2, ReachableFields
  <2>3. ASSUME reached PROVE \E l \in FileSites : WalkHit(r, files[l], f.pkg)
    <3>1. PICK v \in ReportedBy(r) : v.target = f.pkg
      BY <2>3
    <3>2. PICK l \in FileSites : Reaches(r, l, v)
      BY <1>1, <3>1, WalkReports
    <3>3. PICK q \in Known(files) : WalkHit(r, files[l], q) /\ v = ReachableViolation(r, files[l], q, v.line)
      BY <3>2 DEF Reaches
    <3>4. PICK line : v = ReachableViolation(r, files[l], q, line)
      BY <3>3
    <3>5. v.target = q
      BY <3>4, ReachableFields
    <3> QED
      BY <3>1, <3>3, <3>5
  <2> QED
    BY <2>1, <2>2, <2>3
<1>7. (\E g \in FilesOf(files) : g.pkg = f.pkg /\ MatchesFile(files, u.from, g)) <=> f.pkg \in Seeds(u)
  BY DEF Seeds
<1>8. \A l \in FileSites : Entry(l) => files[l].pkg \in Seeds(u)
  BY DEF Seeds, FilesOf, FileSites
<1>9. \A d, q : Leads(r, d, q) <=>
        /\ d.type = "local" /\ d.resolved # ""
        /\ q \in Reach(graph, {d.resolved} \cap Known(files))
  BY <1>1 DEF Leads
<1>10. \A p, q \in Known(files) :
          q \in graph[p] <=>
            /\ q # p
            /\ \E l \in FileSites : \E i \in 1..Len(files[l].imports) : Joins(l, i, p, q)
  <2> SUFFICES ASSUME NEW p \in Known(files), NEW q \in Known(files)
               PROVE  q \in graph[p] <=>
                        /\ q # p
                        /\ \E l \in FileSites : \E i \in 1..Len(files[l].imports) : Joins(l, i, p, q)
    OBVIOUS
  <2>1. q \in graph[p] <=>
                    q # p /\ \E l \in FileSites : files[l].pkg = p /\ q \in LocalTargets(files[l])
    BY DEF Edges, FilesOf, FileSites
  <2>2. \A l : q \in LocalTargets(files[l]) <=>
            \E i \in 1..Len(files[l].imports) :
                /\ files[l].imports[i].type = "local" /\ files[l].imports[i].resolved # ""
                /\ files[l].imports[i].resolved = q
    BY DEF LocalTargets
  <2> HIDE DEF graph
  <2> QED
    BY <2>1, <2>2
<1>11. \A l \in FileSites : \A i \in 1..Len(files[l].imports) :
          files[l].imports[i].type = "local" /\ files[l].imports[i].resolved # ""
            => files[l].imports[i].resolved \in Known(files)
  BY <1>1, Scanned, ResolvedKnown
<1>12. \A l \in FileSites : files[l].pkg \in Known(files)
  BY DEF Known, FilesOf, FileSites
<1> HIDE DEF graph, Entry
<1>13. closure \subseteq Known(files) /\ ClosedUnder(graph, closure) /\ Seeds(u) \subseteq closure
  BY <1>3, <1>4, ReachClosed, ReachSeeds DEF Reach
<1> HIDE DEF closure
<1>14. ASSUME Led(f.pkg) PROVE f.pkg \in closure
  <2>1. PICK l \in FileSites : Entry(l)
            /\ \E i \in 1..Len(files[l].imports) : Leads(r, files[l].imports[i], f.pkg)
    BY <1>14
  <2>2. PICK i \in 1..Len(files[l].imports) : Leads(r, files[l].imports[i], f.pkg)
    BY <2>1
  <2>3. PICK d : d = files[l].imports[i]
    OBVIOUS
  <2>4. /\ d.type = "local" /\ d.resolved # "" /\ d.resolved \in Known(files)
        /\ f.pkg \in Reach(graph, {d.resolved})
    <3>1. d.type = "local" /\ d.resolved # "" /\ f.pkg \in Reach(graph, {d.resolved} \cap Known(files))
      BY <1>9, <2>2, <2>3
    <3>2. d.resolved \in Known(files)
      BY <1>11, <2>3, <3>1
    <3>3. {d.resolved} \cap Known(files) = {d.resolved}
      BY <3>2
    <3> QED
      BY <3>1, <3>2, <3>3
  <2>5. d.resolved \in closure
    <3>1. files[l].pkg \in closure
      BY <1>8, <1>13, <2>1
    <3>2. d.resolved = files[l].pkg \/ d.resolved \in graph[files[l].pkg]
      BY <1>10, <1>12, <2>3, <2>4
    <3> QED
      BY <1>13, <3>1, <3>2 DEF ClosedUnder
  <2>6. Reach(graph, {d.resolved}) \subseteq closure
    BY <1>4, <1>13, <2>5, ReachLeast
  <2> QED
    BY <2>4, <2>6
<1>15. ASSUME Whole(u.from), f.pkg \in closure, f.pkg \notin Seeds(u)
       PROVE  Led(f.pkg)
  <2> DEFINE set == {q \in Known(files) : q \in Seeds(u) \/ Led(q)}
  <2>1. ASSUME NEW q \in set, NEW y \in graph[q] PROVE y \in set
    <3>1. y \in Known(files) /\ q \in Known(files)
      BY <1>4, <2>1
    <3>2. CASE q \in Seeds(u)
      <4> HIDE DEF Joins
      <4>0. y \in graph[q]
        BY <2>1
      <4>1. PICK l \in FileSites : \E i \in 1..Len(files[l].imports) : Joins(l, i, q, y)
        BY <1>10, <3>1, <4>0
      <4>2. PICK i \in 1..Len(files[l].imports) :
                /\ files[l].pkg = q
                /\ files[l].imports[i].type = "local" /\ files[l].imports[i].resolved # ""
                /\ files[l].imports[i].resolved = y
        BY <4>1 DEF Joins
      <4>3. Entry(l)
        <5>1. PICK g \in FilesOf(files) : g.pkg = q /\ MatchesFile(files, u.from, g)
          BY <3>2 DEF Seeds
        <5>2. files[l] \in FilesOf(files)
          BY DEF FilesOf, FileSites
        <5> QED
          BY <1>15, <4>2, <5>1, <5>2 DEF Whole, Entry
      <4>4. y \in Reach(graph, {y} \cap Known(files))
        BY <1>4, <3>1, ReachSeeds
      <4>5. Leads(r, files[l].imports[i], y)
        BY <1>9, <4>2, <4>4
      <4> QED
        BY <3>1, <4>3, <4>5
    <3>3. CASE Led(q)
      <4>1. PICK l \in FileSites : Entry(l)
                /\ \E i \in 1..Len(files[l].imports) : Leads(r, files[l].imports[i], q)
        BY <3>3
      <4>2. PICK i \in 1..Len(files[l].imports) : Leads(r, files[l].imports[i], q)
        BY <4>1
      <4>3. PICK d : d = files[l].imports[i]
        OBVIOUS
      <4>4. ClosedUnder(graph, Reach(graph, {d.resolved} \cap Known(files)))
        BY <1>4, ReachClosed
      <4>5. Leads(r, d, q)
        BY <4>2, <4>3
      <4>6. Leads(r, d, y)
        BY <1>9, <2>1, <4>4, <4>5 DEF ClosedUnder
      <4> QED
        BY <3>1, <4>1, <4>3, <4>6
    <3> QED
      BY <2>1, <3>2, <3>3
  <2>2. ClosedUnder(graph, set)
    BY <2>1 DEF ClosedUnder
  <2>3. Seeds(u) \subseteq set /\ set \subseteq DOMAIN graph
    BY <1>3, <1>4
  <2> HIDE DEF set
  <2>4. closure \subseteq set
    BY <2>2, <2>3, ReachLeast DEF closure
  <2> QED
    BY <1>15, <2>4 DEF set
<1>16. f.pkg \in Seeds(u) => f.pkg \in closure
  BY <1>13
<1> HIDE DEF unreached, reached, Led
<1> QED
  BY <1>5, <1>6, <1>7, <1>14, <1>15, <1>16 DEF unreached, reached

(* An unreachable rule and the reachable rule that asks the opposite never   *)
(* claim the same package, and split the packages if the entry files are     *)
(* whole packages.                                                           *)
THEOREM OppositesSplit == Spec => []Split
  BY FindingsCorrect, SplitFollows, PTL

-----------------------------------------------------------------------------
(* Instability. *)

(* Two facts of arithmetic.                                                 *)
LEMMA MulLess ==
    ASSUME NEW a \in Nat, NEW b \in Nat, NEW c \in Nat, a < b, 0 < c
    PROVE  a * c < b * c
  OBVIOUS

LEMMA MulCancel ==
    ASSUME NEW a \in Nat, NEW b \in Nat, NEW c \in Nat, a * c < b * c
    PROVE  a < b
  OBVIOUS

(* Quotients compared by cross-multiplication are ordered. *)
LEMMA CrossOrdered ==
    ASSUME NEW op \in Nat, NEW dp \in Nat, NEW ox \in Nat, NEW dx \in Nat, NEW oy \in Nat,
           NEW dy \in Nat, 0 < dp, 0 < dy, op * dx < ox * dp, ox * dy < oy * dx
    PROVE  op * dy < oy * dp
<1>1. (op * dx) * dy < (ox * dp) * dy
  BY MulLess
<1>2. (ox * dy) * dp < (oy * dx) * dp
  BY MulLess
<1>3. /\ (op * dx) * dy = (op * dy) * dx
      /\ (ox * dp) * dy = (ox * dy) * dp
      /\ (oy * dx) * dp = (oy * dp) * dx
  OBVIOUS
<1>4. (op * dy) * dx < (oy * dp) * dx
  BY <1>1, <1>2, <1>3
<1> QED
  BY <1>4, MulCancel

(* Degrees are natural numbers.                                             *)
LEMMA FansCounted ==
    ASSUME WellScanned(files), NEW p \in Known(files)
    PROVE  FanIn(files, p) \in Nat /\ FanOut(files, p) \in Nat
<1>1. IsFiniteSet(Known(files))
  BY FiniteSites
<1>2. /\ Dependencies(files, p) \in SUBSET Known(files)
      /\ {q \in Known(files) : p \in Dependencies(files, q)} \in SUBSET Known(files)
  BY DEF Dependencies, Edges
<1>3. \A S \in SUBSET Known(files) : Cardinality(S) \in Nat
  BY <1>1, FS_Subset, FS_CardinalityType
<1> QED
  BY <1>2, <1>3 DEF FanIn, FanOut

(* More unstable is a strict order. *)
LEMMA MoreUnstableOrder ==
    ASSUME WellScanned(files), NEW p \in Known(files), NEW x \in Known(files), NEW y \in Known(files)
    PROVE  /\ ~MoreUnstable(files, p, p)
           /\ MoreUnstable(files, p, x) /\ MoreUnstable(files, x, y) => MoreUnstable(files, p, y)
<1>1. PICK ip \in Nat, op \in Nat : ip = FanIn(files, p) /\ op = FanOut(files, p)
  BY FansCounted
<1>2. PICK ix \in Nat, ox \in Nat : ix = FanIn(files, x) /\ ox = FanOut(files, x)
  BY FansCounted
<1>3. PICK iy \in Nat, oy \in Nat : iy = FanIn(files, y) /\ oy = FanOut(files, y)
  BY FansCounted
<1>4. PICK dp \in Nat, dx \in Nat, dy \in Nat : dp = ip + op /\ dx = ix + ox /\ dy = iy + oy
  OBVIOUS
<1>5. /\ MoreUnstable(files, p, p) <=> IF dp = 0 THEN op > 0 ELSE op * dp > op * dp
      /\ MoreUnstable(files, p, x) <=> IF dp = 0 THEN ox > 0 ELSE ox * dp > op * dx
      /\ MoreUnstable(files, x, y) <=> IF dx = 0 THEN oy > 0 ELSE oy * dx > ox * dy
      /\ MoreUnstable(files, p, y) <=> IF dp = 0 THEN oy > 0 ELSE oy * dp > op * dy
  BY <1>1, <1>2, <1>3, <1>4 DEF MoreUnstable
<1>6. ~MoreUnstable(files, p, p)
  <2>1. dp = 0 => ~(op > 0)
    BY <1>4
  <2>2. op * dp \in Nat
    OBVIOUS
  <2>3. ~(op * dp > op * dp)
    BY <2>2
  <2> QED
    BY <1>5, <2>1, <2>3
<1>7. ASSUME MoreUnstable(files, p, x), MoreUnstable(files, x, y)
      PROVE  MoreUnstable(files, p, y)
  <2>1. /\ IF dp = 0 THEN ox > 0 ELSE ox * dp > op * dx
        /\ IF dx = 0 THEN oy > 0 ELSE oy * dx > ox * dy
    BY <1>5, <1>7
  <2>2. op * dx \in Nat /\ ox * dy \in Nat /\ ox * dp \in Nat /\ oy * dx \in Nat
    OBVIOUS
  <2>3. ox # 0
    <3>1. 0 * dp = 0
      OBVIOUS
    <3> QED
      BY <2>1, <2>2, <3>1
  <2>4. dx > 0
    BY <1>4, <2>3
  <2>5. oy * dx > ox * dy
    BY <2>1, <2>4
  <2>6. oy # 0
    <3>1. 0 * dx = 0
      OBVIOUS
    <3> QED
      BY <2>2, <2>5, <3>1
  <2>7. dy > 0
    BY <1>4, <2>6
  <2>8. CASE dp = 0
    BY <1>5, <2>6, <2>8
  <2>9. CASE dp # 0
    <3>1. 0 < dp /\ op * dx < ox * dp /\ ox * dy < oy * dx /\ 0 < dy
      BY <2>1, <2>2, <2>5, <2>7, <2>9
    <3>2. op * dy < oy * dp
      BY <3>1, CrossOrdered
    <3>3. oy * dp > op * dy
      BY <3>2
    <3> QED
      BY <1>5, <2>9, <3>3
  <2> QED
    BY <2>8, <2>9
<1> QED
  BY <1>6, <1>7

LEMMA UnstableAcyclicFollows == Findings => UnstableAcyclic
<1> SUFFICES ASSUME Findings, phase = "done", NEW g \in ActiveForbidden,
                    g.scope = "folder", g.to.moreUnstable = {TRUE},
                    NEW p \in Known(files)
             PROVE  LET edges == [o \in Known(files) |->
                            {q \in Known(files) : \E v \in ReportedBy(g) :
                                v.path = o /\ v.target = q}]
                    IN  p \notin Reach(edges, edges[p])
  BY DEF UnstableAcyclic
<1> DEFINE edges == [o \in Known(files) |->
                            {q \in Known(files) : \E v \in ReportedBy(g) :
                                v.path = o /\ v.target = q}]
           set == {q \in Known(files) : MoreUnstable(files, p, q)}
<1>1. IsFolder(g) /\ WellScanned(files)
  BY AtEnd DEF IsFolder
<1>2. ASSUME NEW x \in Known(files), NEW y \in edges[x]
      PROVE  y \in Known(files) /\ MoreUnstable(files, x, y)
  <2>1. PICK v \in ReportedBy(g) : v.path = x /\ v.target = y
    BY <1>2
  <2>2. PICK o, q \in Known(files) : FolderHit(g, o, q) /\ v = FolderViolation(g, o, q)
    BY <1>1, FolderReports
  <2>3. v.path = o /\ v.target = q
    BY <2>2 DEF FolderViolation
  <2>4. MatchesFolderEdge(files, g.to, x, y, Captures(g.from, x)) = "yes"
    BY <2>1, <2>2, <2>3 DEF FolderHit
  <2> QED
    BY <1>2, <2>4 DEF MatchesFolderEdge
<1>3. DOMAIN edges = Known(files)
  OBVIOUS
<1> HIDE DEF edges
<1>4. edges[p] \subseteq set
  BY <1>2
<1>5. ASSUME NEW x \in set, NEW y \in edges[x] PROVE y \in set
  <2>1. x \in Known(files) /\ MoreUnstable(files, p, x)
    OBVIOUS
  <2>2. y \in Known(files) /\ MoreUnstable(files, x, y)
    BY <1>2, <2>1
  <2> QED
    BY <1>1, <2>1, <2>2, MoreUnstableOrder
<1>6. p \notin set
  BY <1>1, MoreUnstableOrder
<1>7. set \in SUBSET DOMAIN edges
  BY <1>3
<1> HIDE DEF set
<1>8. ClosedUnder(edges, set)
  BY <1>5 DEF ClosedUnder
<1>9. Reach(edges, edges[p]) \subseteq set
  BY <1>4, <1>7, <1>8, ReachLeast
<1> QED
  BY <1>6, <1>9 DEF edges

(* The edges reported as leading to a more unstable package have no cycle,   *)
(* in any graph.                                                             *)
THEOREM InstabilityOrdered == Spec => []UnstableAcyclic
  BY FindingsCorrect, UnstableAcyclicFollows, PTL

-----------------------------------------------------------------------------
(* Scopes. *)

(* The empty from selects everything and captures nothing. *)
LEMMA AnyFromSelects ==
    ASSUME NEW f, NEW p
    PROVE  /\ MatchesFile(files, AnyFrom, f) /\ MatchesFolder(files, AnyFrom, p)
           /\ Captures(AnyFrom, p) = <<>>
<1>1. PICK from : from = AnyFrom
  OBVIOUS
<1>2. /\ from.path = <<>> /\ from.pathNot = {} /\ from.orphan = {} /\ from.packageName = {}
      /\ from.lessThan = {} /\ from.moreThan = {}
  BY <1>1 DEF AnyFrom
<1>3. Len(from.path) = 0
  BY <1>2
<1>4. \A value : MatchesPath(from, value) /\ Captures(from, value) = <<>>
  BY <1>3 DEF MatchesPath, Captures
<1>5. \A n : InRange(from, n)
  BY <1>2 DEF InRange
<1>6. MatchesFile(files, from, f) /\ MatchesFolder(files, from, p)
  BY <1>2, <1>4, <1>5 DEF MatchesFile, MatchesFolder
<1> QED
  BY <1>1, <1>4, <1>6

(* An import that resolves to another package matches as its edge does. *)
LEMMA EdgesAlike ==
    ASSUME NEW to, to.types = {}, to.typesNot = {}, NEW f, NEW d,
           d.type = "local", d.resolved # "", NEW captures
    PROVE  MatchesModuleEdge(files, to, f, d, captures) =
               MatchesFolderEdge(files, to, f.pkg, d.resolved, captures)
<1>1. EffectivePath(d) = d.resolved
  BY DEF EffectivePath
<1>2. MatchesDependency(to, d, captures) = MatchesPackage(to, d.resolved, captures)
  BY <1>1 DEF MatchesDependency
<1> QED
  BY <1>2 DEF MatchesModuleEdge, MatchesFolderEdge

LEMMA ScopesAgreeFollow == Findings => ScopesAgree
<1> SUFFICES ASSUME Findings, phase = "done", NEW m \in ActiveForbidden, NEW g \in ActiveForbidden,
                    m.scope = "module", g.scope = "folder",
                    m.from = AnyFrom, g.from = AnyFrom, m.to = g.to
             PROVE  {<<v.path, v.target>> : v \in ReportedBy(g)} =
                        {e \in Known(files) \X Known(files) :
                            /\ e[1] # e[2]
                            /\ \E v \in ReportedBy(m) : \E f \in FilesOf(files) :
                                /\ f.pkg = e[1] /\ f.path = v.path
                                /\ v.type = "local" /\ v.target = e[2]}
  BY DEF ScopesAgree
<1> DEFINE Folder(p, q) == \E v \in ReportedBy(g) : v.path = p /\ v.target = q
           Module(p, q) == \E v \in ReportedBy(m) : \E f \in FilesOf(files) :
                                /\ f.pkg = p /\ f.path = v.path
                                /\ v.type = "local" /\ v.target = q
           Match(p, q) == MatchesFolderEdge(files, g.to, p, q, <<>>) = "yes"
<1>1. WellScanned(files) /\ Inv
  BY AtEnd
<1>2. g.to.types = {} /\ g.to.typesNot = {} /\ g.to.reachable = {}
  BY <1>1, RuleValid DEF ValidTo
<1>3. IsFolder(g) /\ IsModule(m)
  BY <1>2 DEF IsFolder, IsModule
<1>4. ~SourceOnly(m)
  <2>1. m.from.orphan = {} /\ m.from.packageName = {} /\ m.from.lessThan = {} /\ m.from.moreThan = {}
    BY DEF AnyFrom
  <2> QED
    BY <2>1 DEF SourceOnly
<1>5. ASSUME NEW p \in Known(files), NEW q \in Known(files)
      PROVE  FolderHit(g, p, q) <=> q \in Dependencies(files, p) /\ Match(p, q)
  <2>1. q \in Dependencies(files, p) => p \in {f.pkg : f \in FilesOf(files)}
    BY DEF Dependencies, Edges
  <2>2. MatchesFolder(files, g.from, p) /\ Captures(g.from, p) = <<>>
    BY AnyFromSelects
  <2> QED
    BY <2>1, <2>2 DEF FolderHit
<1>6. ASSUME NEW s \in ImportSites
      PROVE  EdgeHit(m, s) <=> MatchesModuleEdge(files, m.to, files[s[1]], ImportAt(s), <<>>) = "yes"
  <2>1. MatchesFile(files, m.from, files[s[1]]) /\ Captures(m.from, files[s[1]].path) = <<>>
    BY AnyFromSelects
  <2> QED
    BY <1>4, <2>1 DEF EdgeHit
<1>7. ASSUME NEW p, NEW q, Folder(p, q)
      PROVE  p \in Known(files) /\ q \in Known(files) /\ FolderHit(g, p, q)
  <2>1. PICK v \in ReportedBy(g) : v.path = p /\ v.target = q
    BY <1>7
  <2>2. PICK o, w \in Known(files) : FolderHit(g, o, w) /\ v = FolderViolation(g, o, w)
    BY <1>3, FolderReports
  <2>3. v.path = o /\ v.target = w
    BY <2>2 DEF FolderViolation
  <2> QED
    BY <2>1, <2>2, <2>3
<1>8. ASSUME NEW p \in Known(files), NEW q \in Known(files), FolderHit(g, p, q)
      PROVE  Folder(p, q)
  <2>1. PICK v : v = FolderViolation(g, p, q)
    OBVIOUS
  <2>2. v \in ReportedBy(g)
    BY <1>3, <1>8, <2>1, FolderReports
  <2>3. v.path = p /\ v.target = q
    BY <2>1 DEF FolderViolation
  <2> QED
    BY <2>2, <2>3
<1>9. ASSUME NEW p \in Known(files), NEW q \in Known(files), FolderHit(g, p, q)
      PROVE  p # q /\ Module(p, q)
  <2>1. q \in Dependencies(files, p) /\ Match(p, q)
    BY <1>5, <1>9
  <2>2. PICK f \in FilesOf(files) : f.pkg = p /\ q \in LocalTargets(f) /\ p # q
    BY <2>1 DEF Dependencies, Edges
  <2>3. PICK k \in FileSites : f = files[k]
    BY <1>1, Scanned
  <2>4. PICK i \in 1..Len(f.imports) :
            f.imports[i].type = "local" /\ f.imports[i].resolved # "" /\ f.imports[i].resolved = q
    BY <2>2 DEF LocalTargets
  <2>5. PICK s : s = <<k, i>>
    OBVIOUS
  <2>6. s \in ImportSites /\ files[s[1]] = f /\ ImportAt(s) = f.imports[i]
    BY <2>3, <2>5 DEF ImportSites, ImportAt
  <2>7. PICK d : d = ImportAt(s)
    OBVIOUS
  <2>8. d.type = "local" /\ d.resolved # "" /\ d.resolved = q
    BY <2>4, <2>6, <2>7
  <2>9. MatchesModuleEdge(files, m.to, f, d, <<>>) = MatchesFolderEdge(files, m.to, f.pkg, d.resolved, <<>>)
    BY <1>2, <2>8, EdgesAlike
  <2>10. EdgeHit(m, s)
    BY <1>6, <2>1, <2>2, <2>6, <2>7, <2>8, <2>9
  <2>11. PICK v : v = EdgeOf(m, s)
    OBVIOUS
  <2>12. v \in ReportedBy(m)
    BY <1>3, <1>4, <2>6, <2>10, <2>11, EdgeReports
  <2>13. v.path = f.path /\ v.type = d.type /\ v.target = EffectivePath(d)
    BY <2>6, <2>7, <2>11 DEF EdgeOf, EdgeViolation
  <2>14. EffectivePath(d) = q
    BY <2>8 DEF EffectivePath
  <2> QED
    BY <2>2, <2>8, <2>12, <2>13, <2>14
<1>10. ASSUME NEW p \in Known(files), NEW q \in Known(files), p # q, Module(p, q)
       PROVE  FolderHit(g, p, q)
  <2>1. PICK v \in ReportedBy(m) : \E f \in FilesOf(files) :
            f.pkg = p /\ f.path = v.path /\ v.type = "local" /\ v.target = q
    BY <1>10
  <2>2. PICK f \in FilesOf(files) :
            f.pkg = p /\ f.path = v.path /\ v.type = "local" /\ v.target = q
    BY <2>1
  <2>3. PICK s \in ImportSites : EdgeHit(m, s) /\ v = EdgeOf(m, s)
    BY <1>3, <1>4, EdgeReports
  <2>4. PICK d : d = ImportAt(s)
    OBVIOUS
  <2>5. v.path = files[s[1]].path /\ v.type = d.type /\ v.target = EffectivePath(d)
    BY <2>3, <2>4 DEF EdgeOf, EdgeViolation
  <2>6. f = files[s[1]] /\ s[2] \in 1..Len(f.imports) /\ d = f.imports[s[2]]
    <3>1. PICK k \in FileSites : f = files[k]
      BY <1>1, Scanned
    <3>2. s[1] \in FileSites /\ s[2] \in 1..Len(files[s[1]].imports)
      BY <1>1, Scanned
    <3>3. files[k].path = files[s[1]].path
      BY <2>2, <2>5, <3>1
    <3>4. k = s[1]
      BY <1>1, <3>2, <3>3 DEF WellScanned, FileSites
    <3> QED
      BY <2>4, <3>1, <3>2, <3>4 DEF ImportAt
  <2>7. d.type = "local" /\ EffectivePath(d) = q
    BY <2>2, <2>5
  <2>8. d.resolved # ""
    <3>1. d.resolved = "" => d.path \notin Known(files)
      <4>1. \A h \in FilesOf(files) : \A i \in 1..Len(h.imports) :
                h.imports[i].type = "local" /\ h.imports[i].resolved = "" =>
                    h.imports[i].path \notin Known(files)
        BY <1>1 DEF WellScanned
      <4> QED
        BY <2>6, <2>7, <4>1
    <3> QED
      BY <2>7, <3>1 DEF EffectivePath
  <2>9. d.resolved = q
    BY <2>7, <2>8 DEF EffectivePath
  <2>10. q \in LocalTargets(f)
    BY <2>6, <2>7, <2>8, <2>9 DEF LocalTargets
  <2>11. q \in Dependencies(files, p)
    BY <1>10, <2>2, <2>10 DEF Dependencies, Edges
  <2>12. MatchesModuleEdge(files, m.to, f, d, <<>>) = MatchesFolderEdge(files, m.to, f.pkg, d.resolved, <<>>)
    BY <1>2, <2>7, <2>8, EdgesAlike
  <2>13. MatchesModuleEdge(files, m.to, f, d, <<>>) = "yes"
    BY <1>6, <2>3, <2>4, <2>6
  <2> QED
    BY <1>5, <2>2, <2>9, <2>11, <2>12, <2>13
<1>11. \A p, q : Folder(p, q) <=>
            p \in Known(files) /\ q \in Known(files) /\ p # q /\ Module(p, q)
  BY <1>7, <1>8, <1>9, <1>10
<1>12. \A e : e \in {<<v.path, v.target>> : v \in ReportedBy(g)} <=>
            \E p, q : e = <<p, q>> /\ Folder(p, q)
  OBVIOUS
<1>13. \A e : e \in {x \in Known(files) \X Known(files) :
                            /\ x[1] # x[2]
                            /\ \E v \in ReportedBy(m) : \E f \in FilesOf(files) :
                                /\ f.pkg = x[1] /\ f.path = v.path
                                /\ v.type = "local" /\ v.target = x[2]} <=>
            \E p, q : /\ e = <<p, q>>
                      /\ p \in Known(files) /\ q \in Known(files) /\ p # q /\ Module(p, q)
  OBVIOUS
<1> HIDE DEF Folder, Module
<1> QED
  BY <1>11, <1>12, <1>13

(* A rule with from: {} reports the same package edges at either scope.      *)
THEOREM ScopesMeet == Spec => []ScopesAgree
  BY FindingsCorrect, ScopesAgreeFollow, PTL

-----------------------------------------------------------------------------
(* Identities. *)

(* Two violations that differ in their line only. *)
LEMMA SameButLine ==
    ASSUME NEW v \in Violation, NEW w \in Violation,
           v.rule = w.rule, v.severity = w.severity, v.kind = w.kind, v.path = w.path,
           v.package = w.package, v.target = w.target, v.type = w.type,
           v.importPath = w.importPath
    PROVE  [v EXCEPT !.line = 0] = [w EXCEPT !.line = 0]
<1>1. PICK strings, packages :
        strings = Strings /\ packages = {f.name : f \in FilesOf(files)} \cup {""}
  OBVIOUS
<1>2. Violation = [rule : strings, severity : strings, kind : strings, path : strings, line : Nat,
                   package : packages, target : strings, type : strings, importPath : strings]
  BY <1>1 DEF Violation
<1> HIDE DEF Violation
<1>3. ASSUME NEW u \in Violation
      PROVE  LET a == [u EXCEPT !.line = 0]
             IN  /\ a \in Violation /\ a.rule = u.rule /\ a.severity = u.severity
                 /\ a.kind = u.kind /\ a.path = u.path /\ a.line = 0 /\ a.package = u.package
                 /\ a.target = u.target /\ a.type = u.type /\ a.importPath = u.importPath
  <2> DEFINE a == [u EXCEPT !.line = 0]
  <2>1. 0 \in Nat
    OBVIOUS
  <2>2. a \in Violation
    BY <1>2, <2>1
  <2>3. a.rule = u.rule /\ a.severity = u.severity /\ a.kind = u.kind /\ a.path = u.path
    BY <1>2
  <2>4. a.package = u.package /\ a.target = u.target /\ a.type = u.type /\ a.importPath = u.importPath
    BY <1>2
  <2>5. a.line = 0
    BY <1>2
  <2> QED
    BY <2>2, <2>3, <2>4, <2>5
<1>4. PICK a, b : a = [v EXCEPT !.line = 0] /\ b = [w EXCEPT !.line = 0]
  OBVIOUS
<1>5. /\ a \in Violation /\ a.rule = v.rule /\ a.severity = v.severity
      /\ a.kind = v.kind /\ a.path = v.path /\ a.line = 0 /\ a.package = v.package
      /\ a.target = v.target /\ a.type = v.type /\ a.importPath = v.importPath
  BY <1>3, <1>4
<1>6. /\ b \in Violation /\ b.rule = w.rule /\ b.severity = w.severity
      /\ b.kind = w.kind /\ b.path = w.path /\ b.line = 0 /\ b.package = w.package
      /\ b.target = w.target /\ b.type = w.type /\ b.importPath = w.importPath
  BY <1>3, <1>4
<1>7. a = b
  BY <1>5, <1>6, SameFields
<1> QED
  BY <1>4, <1>7

Alike(v, w) == [v EXCEPT !.line = 0] = [w EXCEPT !.line = 0]

(* A path belongs to one file. *)
LEMMA OneFile ==
    ASSUME WellScanned(files), NEW k \in FileSites, NEW l \in FileSites,
           files[k].path = files[l].path
    PROVE  k = l
  BY DEF WellScanned, FileSites

(* One import path is behind both. *)
LEMMA EdgeAlike ==
    ASSUME WellScanned(files), NEW name, NEW severity, NEW kind,
           NEW s \in ImportSites, NEW t \in ImportSites,
           NEW v \in Violation, NEW w \in Violation,
           v = EdgeViolation(name, severity, kind, files[s[1]], ImportAt(s)),
           w = EdgeViolation(name, severity, kind, files[t[1]], ImportAt(t)),
           Identity(v) = Identity(w)
    PROVE  Alike(v, w)
<1>1. PICK d \in Import, e \in Import, k \in FileSites, l \in FileSites :
        d = ImportAt(s) /\ e = ImportAt(t) /\ k = s[1] /\ l = t[1]
  BY Scanned
<1>2. PICK f, g : f = files[k] /\ g = files[l]
  OBVIOUS
<1>3. v = EdgeViolation(name, severity, kind, f, d) /\ w = EdgeViolation(name, severity, kind, g, e)
  BY <1>1, <1>2
<1>4. /\ v.rule = name /\ v.severity = severity /\ v.kind = kind /\ v.path = f.path
      /\ v.package = f.name /\ v.target = EffectivePath(d)
      /\ v.type = d.type /\ v.importPath = d.path
  BY <1>3 DEF EdgeViolation
<1>5. /\ w.rule = name /\ w.severity = severity /\ w.kind = kind /\ w.path = g.path
      /\ w.package = g.name /\ w.target = EffectivePath(e)
      /\ w.type = e.type /\ w.importPath = e.path
  BY <1>3 DEF EdgeViolation
<1>6. d.path # "" /\ e.path # ""
  BY DEF Import
<1>7. v.path = w.path /\ d.path = e.path
  BY <1>4, <1>5, <1>6 DEF Identity
<1>8. f = g
  BY <1>1, <1>2, <1>4, <1>5, <1>7 DEF WellScanned, FileSites
<1>9. d.resolved = e.resolved /\ d.type = e.type
  <2>1. [d EXCEPT !.line = 0] = [e EXCEPT !.line = 0]
    BY <1>1, <1>7, OneResolution
  <2>2. PICK strings, paths : strings = Strings /\ paths = Strings \ {""}
    OBVIOUS
  <2>3. Import = [path : paths, resolved : strings, type : strings, line : Nat]
    BY <2>2 DEF Import
  <2>4. PICK a, b : a = [d EXCEPT !.line = 0] /\ b = [e EXCEPT !.line = 0] /\ a = b
    BY <2>1
  <2>5. a.resolved = d.resolved /\ a.type = d.type
    BY <2>3, <2>4
  <2>6. b.resolved = e.resolved /\ b.type = e.type
    BY <2>3, <2>4
  <2> QED
    BY <2>4, <2>5, <2>6
<1>10. EffectivePath(d) = EffectivePath(e)
  BY <1>7, <1>9 DEF EffectivePath
<1> QED
  BY <1>4, <1>5, <1>7, <1>8, <1>9, <1>10, SameButLine DEF Alike


(* Violations of one forbidden rule with one identity. *)
LEMMA ForbiddenAlike ==
    ASSUME Findings, phase = "done", NEW j \in 1..Len(config.forbidden),
           NEW v \in Violation, NEW w \in Violation, FromForbidden(j, v), FromForbidden(j, w),
           Identity(v) = Identity(w)
    PROVE  Alike(v, w)
<1>1. PICK r : r = config.forbidden[j]
  OBVIOUS
<1>2. WellScanned(files) /\ Walked(j) = FileSites
  BY AtEnd
<1>3. ASSUME NEW u, FromForbidden(j, u)
      PROVE  (IsReachable(r) /\ \E k \in FileSites : Reaches(r, k, u)) \/ Makes(r, u)
  BY <1>1, <1>2, <1>3 DEF FromForbidden
<1>4. v.path = w.path
  BY DEF Identity
<1>5. CASE IsFolder(r)
  <2>1. \A u : ~(IsReachable(r) \/ IsUnreachable(r) \/ IsModule(r))
    BY <1>5 DEF IsReachable, IsUnreachable, IsModule
  <2>2. \E p, q : v = FolderViolation(r, p, q)
    BY <1>3, <2>1 DEF Makes
  <2>3. \E p, q : w = FolderViolation(r, p, q)
    BY <1>3, <2>1 DEF Makes
  <2>4. PICK p, q : v = FolderViolation(r, p, q)
    BY <2>2
  <2>5. PICK m, n : w = FolderViolation(r, m, n)
    BY <2>3
  <2>6. v.path = p /\ v.target = q /\ v.importPath = ""
    BY <2>4 DEF FolderViolation
  <2>7. w.path = m /\ w.target = n /\ w.importPath = ""
    BY <2>5 DEF FolderViolation
  <2>8. p = m /\ q = n
    BY <2>6, <2>7 DEF Identity
  <2> QED
    BY <2>4, <2>5, <2>8 DEF Alike
<1>6. CASE IsReachable(r)
  <2>1. \A u : ~Makes(r, u)
    BY <1>6 DEF Makes, IsReachable, IsUnreachable, IsModule
  <2>2. PICK k \in FileSites : Reaches(r, k, v)
    BY <1>3, <2>1
  <2>3. PICK l \in FileSites : Reaches(r, l, w)
    BY <1>3, <2>1
  <2>4. PICK q, m : v = ReachableViolation(r, files[k], q, m)
    BY <2>2 DEF Reaches
  <2>5. PICK o, n : w = ReachableViolation(r, files[l], o, n)
    BY <2>3 DEF Reaches
  <2>6. PICK f, g : f = files[k] /\ g = files[l]
    OBVIOUS
  <2>7. /\ v.rule = r.name /\ v.severity = r.severity /\ v.kind = "reachable"
        /\ v.path = f.path /\ v.package = f.name /\ v.target = q
        /\ v.type = "local" /\ v.importPath = ""
    BY <2>4, <2>6 DEF ReachableViolation
  <2>8. /\ w.rule = r.name /\ w.severity = r.severity /\ w.kind = "reachable"
        /\ w.path = g.path /\ w.package = g.name /\ w.target = o
        /\ w.type = "local" /\ w.importPath = ""
    BY <2>5, <2>6 DEF ReachableViolation
  <2>9. q = o
    BY <2>7, <2>8 DEF Identity
  <2>10. f = g
    BY <1>2, <1>4, <2>6, <2>7, <2>8 DEF WellScanned, FileSites
  <2>11. /\ v.rule = w.rule /\ v.severity = w.severity /\ v.kind = w.kind
         /\ v.package = w.package /\ v.target = w.target /\ v.type = w.type
         /\ v.importPath = w.importPath
    BY <2>7, <2>8, <2>9, <2>10
  <2>12. [v EXCEPT !.line = 0] = [w EXCEPT !.line = 0]
    BY <1>4, <2>11, SameButLine
  <2> QED
    BY <2>12 DEF Alike
<1>7. CASE IsUnreachable(r)
  <2>1. ~IsFolder(r) /\ ~IsReachable(r) /\ ~IsModule(r)
    BY <1>7 DEF IsReachable, IsUnreachable, IsModule
  <2>2. PICK k \in FileSites : v = SourceViolation(r, "unreachable", files[k])
    BY <1>3, <2>1 DEF Makes
  <2>3. PICK l \in FileSites : w = SourceViolation(r, "unreachable", files[l])
    BY <1>3, <2>1 DEF Makes
  <2>5. v.path = files[k].path
    BY <2>2 DEF SourceViolation
  <2>6. w.path = files[l].path
    BY <2>3 DEF SourceViolation
  <2>7. k = l
    BY <1>2, <1>4, <2>5, <2>6, OneFile
  <2>4. v = w
    BY <2>2, <2>3, <2>7
  <2> QED
    BY <2>4 DEF Alike
<1>8. CASE IsModule(r)
  <2>1. ~IsFolder(r) /\ ~IsReachable(r) /\ ~IsUnreachable(r)
    BY <1>8 DEF IsReachable, IsUnreachable, IsModule
  <2>2. ASSUME NEW u, FromForbidden(j, u)
        PROVE  \/ \E k \in FileSites : SourceHit(r, k) /\ u = SourceViolation(r, "forbidden", files[k])
               \/ \E s \in ImportSites : EdgeHit(r, s) /\ u = EdgeOf(r, s)
    BY <1>3, <2>1, <2>2 DEF Makes
  <2>3. CASE SourceOnly(r)
    <3>1. PICK k \in FileSites : v = SourceViolation(r, "forbidden", files[k])
      BY <2>2, <2>3 DEF EdgeHit
    <3>2. PICK l \in FileSites : w = SourceViolation(r, "forbidden", files[l])
      BY <2>2, <2>3 DEF EdgeHit
    <3>4. v.path = files[k].path
      BY <3>1 DEF SourceViolation
    <3>5. w.path = files[l].path
      BY <3>2 DEF SourceViolation
    <3>6. k = l
      BY <1>2, <1>4, <3>4, <3>5, OneFile
    <3>3. v = w
      BY <3>1, <3>2, <3>6
    <3> QED
      BY <3>3 DEF Alike
  <2>4. CASE ~SourceOnly(r)
    <3>1. PICK s \in ImportSites : v = EdgeOf(r, s)
      BY <2>2, <2>4 DEF SourceHit
    <3>2. PICK t \in ImportSites : w = EdgeOf(r, t)
      BY <2>2, <2>4 DEF SourceHit
    <3> QED
      BY <1>2, <3>1, <3>2, EdgeAlike DEF EdgeOf
  <2> QED
    BY <2>3, <2>4
<1>9. Makes(r, v) => IsFolder(r) \/ IsUnreachable(r) \/ IsModule(r)
  BY DEF Makes
<1> QED
  BY <1>3, <1>5, <1>6, <1>7, <1>8, <1>9

(* The rule of a violation outside the forbidden list. *)
LEMMA OtherNames ==
    ASSUME NEW v
    PROVE  /\ FromAllowed(v) => v.rule = Reserved
           /\ FromRequired(v) => \E j \in 1..Len(config.required) :
                v.rule = config.required[j].name
<1>1. ASSUME FromAllowed(v) PROVE v.rule = Reserved
  <2>1. PICK s : v = SlipOf(s)
    BY <1>1 DEF FromAllowed
  <2> QED
    BY <2>1, EdgeFields DEF SlipOf
<1>2. ASSUME FromRequired(v)
      PROVE  \E j \in 1..Len(config.required) : v.rule = config.required[j].name
  <2>1. PICK j \in 1..Len(config.required) : \E f : v = SourceViolation(config.required[j], "required", f)
    BY <1>2 DEF FromRequired
  <2>f. PICK f : v = SourceViolation(config.required[j], "required", f)
    BY <2>1
  <2>2. PICK r : r = config.required[j]
    OBVIOUS
  <2>3. v.rule = r.name
    BY <2>f, <2>2 DEF SourceViolation
  <2> QED
    BY <2>2, <2>3
<1> QED
  BY <1>1, <1>2

LEMMA IdentityDeterminesFollows == Findings => IdentityDetermines
<1> SUFFICES ASSUME Findings, phase = "done", NEW v \in Reported, NEW w \in Reported,
                    Identity(v) = Identity(w)
             PROVE  Alike(v, w)
  BY DEF IdentityDetermines, Alike
<1>1. /\ v \in Violation /\ w \in Violation /\ WellScanned(files) /\ Inv /\ Shape
      /\ Cause(v) /\ Cause(w)
  BY AtEnd
<1>2. v.rule = w.rule /\ v.path = w.path
  BY DEF Identity
<1>3. /\ \A j \in 1..Len(config.forbidden) : config.forbidden[j].name # Reserved
      /\ \A j \in 1..Len(config.required) : config.required[j].name # Reserved
  BY <1>1, RuleTypes
<1>4. ASSUME NEW j \in 1..Len(config.forbidden), FromForbidden(j, v) \/ FromForbidden(j, w)
      PROVE  Alike(v, w)
  <2>1. v.rule = config.forbidden[j].name
    BY <1>2, <1>4, RuleNamed
  <2>2. FromForbidden(j, v) /\ FromForbidden(j, w)
    BY <1>1, <1>2, <2>1, NamedBy
  <2> QED
    BY <1>1, <2>2, ForbiddenAlike
<1>5. CASE FromAllowed(v) /\ FromAllowed(w)
  <2>1. PICK s \in ImportSites : v = SlipOf(s)
    BY <1>5 DEF FromAllowed
  <2>2. PICK t \in ImportSites : w = SlipOf(t)
    BY <1>5 DEF FromAllowed
  <2> QED
    BY <1>1, <2>1, <2>2, EdgeAlike DEF SlipOf
<1>6. CASE FromRequired(v) /\ FromRequired(w)
  <2>1. PICK j \in 1..Len(config.required), k \in FileSites :
            v = SourceViolation(config.required[j], "required", files[k])
    BY <1>6 DEF FromRequired
  <2>2. PICK m \in 1..Len(config.required), l \in FileSites :
            w = SourceViolation(config.required[m], "required", files[l])
    BY <1>6 DEF FromRequired
  <2>3. PICK r, o : r = config.required[j] /\ o = config.required[m]
    OBVIOUS
  <2>4. v.rule = r.name
    BY <2>1, <2>3 DEF SourceViolation
  <2>5. w.rule = o.name
    BY <2>2, <2>3 DEF SourceViolation
  <2>6. j = m
    BY <1>1, <1>2, <2>3, <2>4, <2>5, Names
  <2>8. v.path = files[k].path
    BY <2>1 DEF SourceViolation
  <2>9. w.path = files[l].path
    BY <2>2 DEF SourceViolation
  <2>10. k = l
    BY <1>1, <1>2, <2>8, <2>9, OneFile
  <2>7. v = w
    BY <2>1, <2>2, <2>6, <2>10
  <2> QED
    BY <2>7 DEF Alike
<1>7. ~(FromAllowed(v) /\ FromRequired(w)) /\ ~(FromRequired(v) /\ FromAllowed(w))
  BY <1>2, <1>3, OtherNames
<1> QED
  BY <1>1, <1>4, <1>5, <1>6, <1>7 DEF Cause

(* A baseline entry stands for one finding, up to its line.                  *)
THEOREM IdentityUnique == Spec => []IdentityDetermines
  BY FindingsCorrect, IdentityDeterminesFollows, PTL
=============================================================================
